---- MODULE Spec2Model ----
(***************************************************************************)
(* Door detector of src/app.py: SimpleDoorDetector, the live session       *)
(* globals (live_detector, live_camera, live_active, live_lock), the live  *)
(* frame generator and the request handlers that drive them.               *)
(*                                                                         *)
(* Representation:                                                         *)
(*   - None is 0 for the handle/detector globals and << >> for the ROI and *)
(*     the reference image;                                                *)
(*   - a frame is a sequence of rows of BGR pixels <<b, g, r>>;            *)
(*   - threshold_percentage is kept in half percents (5.0 is 10), which is *)
(*     exact because the code only ever moves it by 0.5;                   *)
(*   - change_percentage is the fraction <<100 * changed, total>>, which   *)
(*     stands for the double (changed / total) * 100 of line 61; the       *)
(*     comparison of line 63 follows the rounding of that double;          *)
(*   - a handler or generator takes one step for each access to a global   *)
(*     or to a field of a detector that another thread can change;         *)
(*   - a history entry keeps its 'status'; the wall-clock 'timestamp' is   *)
(*     not modelled.                                                       *)
(***************************************************************************)
EXTENDS Integers, Sequences, FiniteSets, TLC

(***************************************************************************)
(* Bounds of the model.                                                    *)
(***************************************************************************)
MaxHist == 3
MaxFed == 5

(***************************************************************************)
(* Program constants.                                                      *)
(***************************************************************************)
ThresholdInit == 10
ThresholdMin == 2
ThresholdMax == 30
ThresholdStep == 1
DiffCutoff == 30
KSize == 15
B2Y == 1868
G2Y == 9617
R2Y == 4899
YuvShift == 14

None == 0
NoRoi == << >>
NoImage == << >>

(***************************************************************************)
(* cv2 primitives used by the detector.                                    *)
(***************************************************************************)
RECURSIVE Pow2(_)
Pow2(n) == IF n = 0 THEN 1 ELSE 2 * Pow2(n - 1)

Abs(a) == IF a < 0 THEN -a ELSE a
Min2(a, b) == IF a < b THEN a ELSE b
Max2(a, b) == IF a > b THEN a ELSE b

\* cv2.cvtColor(_, COLOR_BGR2GRAY) on one 8-bit pixel (fixed point, rounded)
GrayPixel(p) ==
    (p[1] * B2Y + p[2] * G2Y + p[3] * R2Y + Pow2(YuvShift - 1)) \div Pow2(YuvShift)

CvtColorGray(img) ==
    [r \in 1..Len(img) |-> [c \in 1..Len(img[r]) |-> GrayPixel(img[r][c])]]

\* cv2.getGaussianKernel(15, sigma = 0.3*((15-1)*0.5 - 1) + 0.8 = 2.6) in
\* 8-bit fixed point (the taps sum to 256)
GaussKernel == <<1, 3, 6, 12, 20, 29, 37, 40, 37, 29, 20, 12, 6, 3, 1>>

\* BORDER_REFLECT_101 (cv2's default border): index i, 1-based, in 1..n
Reflect101(i, n) ==
    IF n = 1 THEN 1
    ELSE LET p == 2 * (n - 1)
             k == (i - 1) % p
         IN  IF k < n THEN k + 1 ELSE p - k + 1

RECURSIVE SumTaps(_, _, _, _)
\* sum over the kernel taps j..KSize of GaussKernel[j] * line[reflected index]
SumTaps(line, n, c, j) ==
    IF j > KSize THEN 0
    ELSE GaussKernel[j] * line[Reflect101(c + j - (KSize + 1) \div 2, n)]
         + SumTaps(line, n, c, j + 1)

\* cv2.GaussianBlur(img, (15, 15), 0): separable, rows then columns
GaussianBlur(img) ==
    LET h == Len(img)
        w == Len(img[1])
        rowpass == [r \in 1..h |-> [c \in 1..w |-> SumTaps(img[r], w, c, 1)]]
        col(c) == [r \in 1..h |-> rowpass[r][c]]
    IN  [r \in 1..h |-> [c \in 1..w |->
            (SumTaps(col(c), h, r, 1) + 32768) \div 65536]]

\* frame[y:y+h, x:x+w] with numpy's clipping of a slice to the array
Crop(frame, roi) ==
    LET x == roi[1]
        y == roi[2]
        w == roi[3]
        h == roi[4]
        H == Len(frame)
        W == Len(frame[1])
        r0 == Min2(y, H)
        r1 == Min2(y + h, H)
        c0 == Min2(x, W)
        c1 == Min2(x + w, W)
    IN  IF r1 <= r0 \/ c1 <= c0 THEN NoImage
        ELSE [r \in 1..(r1 - r0) |-> [c \in 1..(c1 - c0) |-> frame[r0 + r][c0 + c]]]

SameShape(a, b) == Len(a) = Len(b) /\ Len(a[1]) = Len(b[1])

\* cv2.absdiff, cv2.threshold(diff, 30, 255, THRESH_BINARY) and np.sum(thresh > 0)
AbsDiff(a, b) ==
    [r \in 1..Len(a) |-> [c \in 1..Len(a[r]) |-> Abs(a[r][c] - b[r][c])]]

\* a threshold that also sets the pixels whose difference equals the cutoff
ThreshBinary_ge(diff) ==
    [r \in 1..Len(diff) |-> [c \in 1..Len(diff[r]) |->
        IF diff[r][c] >= DiffCutoff THEN 255 ELSE 0]]

ThreshBinary(diff) ==
    [r \in 1..Len(diff) |-> [c \in 1..Len(diff[r]) |->
        IF diff[r][c] > DiffCutoff THEN 255 ELSE 0]]

RECURSIVE CountRow(_, _)
CountRow(row, c) ==
    IF c > Len(row) THEN 0
    ELSE (IF row[c] > 0 THEN 1 ELSE 0) + CountRow(row, c + 1)

RECURSIVE CountSet(_, _)
CountSet(img, r) ==
    IF r > Len(img) THEN 0 ELSE CountRow(img[r], 1) + CountSet(img, r + 1)

(***************************************************************************)
(* Inputs: the frames a camera can deliver and the rectangles a client can *)
(* post to /set_roi.                                                       *)
(***************************************************************************)
Px(v) == <<v, v, v>>

FrameClosed ==
    << <<Px(0), Px(0), Px(0), Px(255), Px(255), Px(255), Px(0), Px(0)>> >>
FrameAjar ==
    << <<Px(0), Px(255), Px(128), Px(0), Px(0), Px(0), Px(255), Px(255)>> >>
FrameOpen ==
    << <<Px(255), Px(255), Px(255), Px(0), Px(0), Px(0), Px(255), Px(255)>> >>
Frames == {FrameClosed, FrameAjar, FrameOpen}
NoFrame == << >>

RoiFull == <<0, 0, 8, 1>>
RoiLeft == <<0, 0, 4, 1>>
Rois == {RoiFull, RoiLeft}

\* a rectangle of the size of RoiLeft at another place, for the requests that
\* move the door frame while a stream is classifying
RoiMid == <<2, 0, 4, 1>>

(***************************************************************************)
(* class SimpleDoorDetector                                                *)
(***************************************************************************)
\* __init__
NewDetector ==
    [door_roi |-> NoRoi,
     reference_closed |-> NoImage,
     door_status |-> "Unknown",
     history |-> << >>,
     threshold_percentage |-> ThresholdInit]

\* a slot of the detector store that holds no object
NoDetector == [NewDetector EXCEPT !.door_status = "free"]

\* set_door_frame(roi)
set_door_frame(d, roi) == [d EXCEPT !.door_roi = roi]

\* lines 38-43 of a calibrate_closed that keeps a reference it already has
\* (first call wins)
calibrate_closed_crop_once(d, frame) ==
    IF d.door_roi = NoRoi THEN [ret |-> "False", gray |-> NoImage]
    ELSE IF d.reference_closed # NoImage THEN [ret |-> "True", gray |-> NoImage]
    ELSE [ret |-> "", gray |-> CvtColorGray(Crop(frame, d.door_roi))]

\* calibrate_closed(frame), lines 38-43 up to the value line 43 stores: ret
\* is "False" as returned by line 39, "cv2.error" when cvtColor gets an empty
\* crop, and "" when the method goes on with the grey crop
calibrate_closed_crop(d, frame) ==
    IF d.door_roi = NoRoi THEN [ret |-> "False", gray |-> NoImage]
    ELSE LET door_area == Crop(frame, d.door_roi)
         IN  IF door_area = NoImage THEN [ret |-> "cv2.error", gray |-> NoImage]
             ELSE [ret |-> "", gray |-> CvtColorGray(door_area)]

\* the assignments to self.reference_closed of line 43 and of line 44
calibrate_closed_store(d, image) == [d EXCEPT !.reference_closed = image]

\* the right-hand side of line 44: the blur of the reference line 43 stored
calibrate_closed_blur(d) == GaussianBlur(d.reference_closed)

\* calibrate_closed(frame) run without interruption: the detector afterwards
\* and the result, "True" / "False" as returned or "cv2.error"
calibrate_closed(d, frame) ==
    LET r == calibrate_closed_crop(d, frame)
    IN  IF r.ret # "" THEN [det |-> d, ret |-> r.ret]
        ELSE [det |-> calibrate_closed_store(
                          d, calibrate_closed_blur(
                                 calibrate_closed_store(d, r.gray))),
              ret |-> "True"]

\* the thresholds k (half percents) for which the double of line 61 exceeds
\* k / 2 when the exact ratio equals it: (c / n) * 100 is rounded twice, and
\* for 3.5, 7.0 and 14.0 the result lies one ulp above the threshold
\* (7 / 100 * 100 is 7.000000000000001); for every other multiple of 0.5 in
\* [1.0, 15.0] the product is the threshold itself
FloatTieAbove == {7, 14, 28}

\* line 63 written with >= : a change equal to the threshold gives OPEN
ExceedsThreshold_ge(pct, thr) == 2 * pct[1] >= thr * pct[2]

\* the comparison change_percentage > threshold_percentage of line 63; pct =
\* <<100 * changed_pixels, total_pixels>> stands for the double line 61
\* computes and thr is the threshold in half percents. Away from equality
\* the doubles compare as the exact values do; at equality the rounding of
\* line 61 decides
ExceedsThreshold(pct, thr) ==
    IF 2 * pct[1] = thr * pct[2] THEN thr \in FloatTieAbove
    ELSE 2 * pct[1] > thr * pct[2]

\* line 49-50 with CLOSED for "Not Calibrated"
detect_not_calibrated_closed(d) ==
    IF d.door_roi = NoRoi \/ d.reference_closed = NoImage
    THEN "CLOSED" ELSE ""

\* detect_door_status, lines 49-50: the status of the early return, "" when
\* the method goes on
detect_not_calibrated(d) ==
    IF d.door_roi = NoRoi \/ d.reference_closed = NoImage
    THEN "Not Calibrated" ELSE ""

\* lines 52-55: the blurred grey crop; NoImage stands for the cv2.error
\* cvtColor raises on an empty crop
detect_current_gray(d, frame) ==
    LET current_door == Crop(frame, d.door_roi)
    IN  IF current_door = NoImage THEN NoImage
        ELSE GaussianBlur(CvtColorGray(current_door))

\* lines 57-61: the mask and the change percentage; error stands for the
\* cv2.error absdiff raises on images of different sizes
detect_change(reference_closed, current_gray) ==
    IF ~SameShape(reference_closed, current_gray)
    THEN [error |-> TRUE, change_percentage |-> <<0, 1>>, thresh |-> NoImage]
    ELSE LET diff == AbsDiff(reference_closed, current_gray)
             thresh == ThreshBinary(diff)
             changed_pixels == CountSet(thresh, 1)
             total_pixels == Len(thresh) * Len(thresh[1])
         IN  [error |-> FALSE,
              change_percentage |-> <<changed_pixels * 100, total_pixels>>,
              thresh |-> thresh]

\* lines 63-68
detect_status(change_percentage, threshold_percentage) ==
    IF ExceedsThreshold(change_percentage, threshold_percentage)
    THEN "OPEN" ELSE "CLOSED"

\* detect_door_status(frame) run without interruption, lines 47-77: status,
\* change_percentage and the binary mask; the status "cv2.error" stands for
\* the exception of line 54 or line 57
detect_door_status(d, frame) ==
    IF detect_not_calibrated(d) # ""
    THEN [status |-> detect_not_calibrated(d), change_percentage |-> <<0, 1>>,
          thresh |-> NoImage]
    ELSE LET current_gray == detect_current_gray(d, frame)
             c == detect_change(d.reference_closed, current_gray)
         IN  IF current_gray = NoImage \/ c.error
             THEN [status |-> "cv2.error", change_percentage |-> <<0, 1>>,
                   thresh |-> NoImage]
             ELSE [status |-> detect_status(c.change_percentage,
                                            d.threshold_percentage),
                   change_percentage |-> c.change_percentage,
                   thresh |-> c.thresh]

\* log_status that logs every status it is given
log_status_test_always(d, status) ==
    Len(d.history) >= 0

\* log_status that never logs into an empty history
log_status_test_nonempty(d, status) ==
    Len(d.history) > 0 /\ d.history[Len(d.history)].status # status

\* log_status(status), line 82: the test that guards the append
log_status_test(d, status) ==
    Len(d.history) = 0 \/ d.history[Len(d.history)].status # status

\* log_status(status), line 83: the append
log_status_append(d, status) ==
    [d EXCEPT !.history = Append(@, [status |-> status])]

(***************************************************************************)
(* The live session: module globals of lines 13-16, the objects they refer *)
(* to, and the threads of the threaded server (request handlers and the    *)
(* consumers of generate_live_frames).                                     *)
(***************************************************************************)
MaxCams == 2
MaxDets == 6

CamIds == 1..MaxCams
DetIds == 1..MaxDets
Clients == {"c1", "c2"}
Streams == {"s1", "s2"}
Threads == Clients \cup Streams
Unlocked == "unlocked"
Actions == {"increase", "decrease", "other"}

VARIABLES
    live_detector,   \* None or the id of the detector object it refers to
    live_camera,     \* None or the id of the VideoCapture object it refers to
    live_active,     \* the flag of line 15
    live_lock,       \* Unlocked or the thread that holds live_lock
    cams,            \* state of each VideoCapture object
    dets,            \* fields of each SimpleDoorDetector object
    pc,              \* position of each thread in the code
    loc,             \* local variables, request and response of each thread
    fed,             \* observer: OPEN/CLOSED results classified so far for
                     \* the detector created by the last start
    video_detector,      \* None or the id of the detector of the video job
    current_video_path,  \* NoPath or the path of the uploaded video
    video_filename,      \* NoPath or the name of the file uploaded last
    uploads,             \* the uploads directory: for each path the file
                         \* whose content was saved there last, or NoPath
    det_file             \* observer: the upload each detector was created for

vars == <<live_detector, live_camera, live_active, live_lock, cams, dets,
          pc, loc, fed, video_detector, current_video_path, video_filename,
          uploads, det_file>>

videoVars == <<video_detector, current_video_path, video_filename, uploads,
               det_file>>

\* the globals of lines 19-21 before any upload
NoPath == ""
\* the files a client can post, by name
Files == {"a.mp4", "b.mp4", "bad.mp4"}

VideoNone ==
    /\ video_detector = None
    /\ current_video_path = NoPath
    /\ video_filename = NoPath
    /\ uploads = [p \in Files |-> NoPath]
    /\ det_file = [i \in DetIds |-> NoPath]

\* the locals of a handler or generator (gray holds the image a method of
\* the detector has computed and not yet stored or compared; cap is the
\* path a VideoCapture was made for and opened the content it found there,
\* NoPath when it could not open); stopped records, for a generator inside
\* the loop body or suspended at its yield, whether a stop_live has
\* completed since it last passed the loop test of line 90
InitLoc ==
    [op |-> "", roi |-> NoRoi, action |-> "", frame |-> NoFrame,
     status |-> "", pct |-> <<0, 1>>, self |-> None, gray |-> NoImage,
     kind |-> "", value |-> 0, history |-> << >>, stopped |-> 0,
     file |-> NoPath, cap |-> NoPath, opened |-> NoPath, pos |-> 0,
     frame_count |-> 0]

Init ==
    /\ live_detector = None
    /\ live_camera = None
    /\ live_active = FALSE
    /\ live_lock = Unlocked
    /\ cams = [i \in CamIds |-> "free"]
    /\ dets = [i \in DetIds |-> NoDetector]
    /\ pc = [t \in Threads |-> "idle"]
    /\ loc = [t \in Threads |-> InitLoc]
    /\ fed = << >>
    /\ VideoNone

\* objects no variable refers to are reclaimed (reference counting)
Keep(d, ld, vd, l) ==
    [i \in DetIds |->
        IF i = ld \/ i = vd \/ (\E t \in Threads : l[t].self = i) THEN d[i]
        ELSE NoDetector]

Reclaim(d, ld, l) == Keep(d, ld, video_detector, l)

\* the observer forgets the detectors that have been reclaimed
Forget(df, d) == [i \in DetIds |-> IF d[i] = NoDetector THEN NoPath ELSE df[i]]

\* the JSON body a calibrate handler builds from the result of
\* calibrate_closed, or the exception that escapes
CalibrateResponse(ret) ==
    IF ret = "True" THEN "success" ELSE IF ret = "False" THEN "failure" ELSE ret

FreshDet(d) == CHOOSE i \in DetIds :
    d[i] = NoDetector /\ \A j \in DetIds : d[j] = NoDetector => i <= j
FreshCam(c) == CHOOSE i \in CamIds :
    c[i] = "free" /\ \A j \in CamIds : c[j] = "free" => i <= j

Goto(t, l) == pc' = [pc EXCEPT ![t] = l]

\* no other thread is inside a handler or inside the generator body
Alone(t) == \A u \in Threads \ {t} : pc[u] \in {"idle", "yield", "play_yield"}

\* the handler (or generator) of thread t finishes with a response: a JSON
\* body, StopIteration, or an exception that escapes it
Return(t, kind, value, history) ==
    /\ pc' = [pc EXCEPT ![t] = "ret"]
    /\ loc' = [loc EXCEPT ![t].kind = kind, ![t].value = value,
                          ![t].history = history, ![t].self = None,
                          ![t].gray = NoImage]

\* the response has been delivered; the thread takes the next request
Done(t) ==
    /\ pc[t] = "ret"
    /\ pc' = [pc EXCEPT ![t] = "idle"]
    /\ loc' = [loc EXCEPT ![t] = InitLoc]
    /\ UNCHANGED <<live_detector, live_camera, live_active, live_lock, cams,
                   dets, fed>>
    /\ UNCHANGED videoVars

\* a request arrives: the route decides the handler, request.json its input;
\* with serial, requests are served one at a time
Begin(t, ops, rois, acts, serial) ==
    /\ pc[t] = "idle"
    /\ t \in Clients
    /\ serial => Alone(t)
    /\ \E op \in ops :
         \E roi \in (IF op = "set_roi" THEN rois ELSE {NoRoi}) :
           \E a \in (IF op = "adjust_sensitivity" THEN acts ELSE {""}) :
             /\ loc' = [loc EXCEPT ![t].op = op, ![t].roi = roi, ![t].action = a]
             /\ Goto(t, op)
    /\ UNCHANGED <<live_detector, live_camera, live_active, live_lock, cams,
                   dets, fed>>
    /\ UNCHANGED videoVars

(***************************************************************************)
(* start_live, lines 198-217                                               *)
(***************************************************************************)
\* start_live entered without taking live_lock
start_nolock(t) ==
    /\ pc[t] = "start_live"
    /\ Goto(t, "start_204")
    /\ UNCHANGED <<live_detector, live_camera, live_active, live_lock, cams,
                   dets, loc, fed>>
    /\ UNCHANGED videoVars

\* line 203: with live_lock (acquire)
start_lock(t) ==
    /\ pc[t] = "start_live"
    /\ live_lock = Unlocked
    /\ live_lock' = t
    /\ Goto(t, "start_204")
    /\ UNCHANGED <<live_detector, live_camera, live_active, cams, dets, loc, fed>>
    /\ UNCHANGED videoVars

\* lines 204-205
start_check(t) ==
    /\ pc[t] = "start_204"
    /\ IF live_active
       THEN /\ Return(t, "Already running", 0, << >>)
            /\ live_lock' = Unlocked
       ELSE /\ Goto(t, "start_207")
            /\ UNCHANGED <<loc, live_lock>>
    /\ UNCHANGED <<live_detector, live_camera, live_active, cams, dets, fed>>
    /\ UNCHANGED videoVars

\* lines 207-212: the new VideoCapture replaces whatever live_camera held
start_open(t) ==
    /\ pc[t] = "start_207"
    /\ \E opened \in BOOLEAN :
         LET h == FreshCam(cams)
         IN  /\ live_camera' = h
             /\ cams' = [i \in CamIds |->
                            IF i = h THEN (IF opened THEN "open" ELSE "unopened")
                            ELSE IF i = live_camera THEN "free"
                            ELSE cams[i]]
             /\ IF opened
                THEN /\ Goto(t, "start_214")
                     /\ UNCHANGED <<loc, live_lock>>
                ELSE /\ Return(t, "Camera not available", 0, << >>)
                     /\ live_lock' = Unlocked
    /\ UNCHANGED <<live_detector, live_active, dets, fed>>
    /\ UNCHANGED videoVars

\* line 214
start_detector(t) ==
    /\ pc[t] = "start_214"
    /\ LET n == FreshDet(dets)
       IN  /\ live_detector' = n
           /\ dets' = Reclaim([dets EXCEPT ![n] = NewDetector], n, loc)
    /\ Goto(t, "start_215")
    /\ UNCHANGED <<live_camera, live_active, live_lock, cams, loc, fed>>
    /\ UNCHANGED videoVars

\* lines 215-217
start_activate(t) ==
    /\ pc[t] = "start_215"
    /\ live_active' = TRUE
    /\ live_lock' = Unlocked
    /\ Return(t, "Live detection started", 0, << >>)
    /\ UNCHANGED <<live_detector, live_camera, cams, dets, fed>>
    /\ UNCHANGED videoVars

(***************************************************************************)
(* stop_live, lines 220-234                                                *)
(***************************************************************************)
\* line 225
stop_lock(t) ==
    /\ pc[t] = "stop_live"
    /\ live_lock = Unlocked
    /\ live_lock' = t
    /\ Goto(t, "stop_226")
    /\ UNCHANGED <<live_detector, live_camera, live_active, cams, dets, loc, fed>>
    /\ UNCHANGED videoVars

\* line 226
stop_deactivate(t) ==
    /\ pc[t] = "stop_226"
    /\ live_active' = FALSE
    /\ Goto(t, "stop_227")
    /\ UNCHANGED <<live_detector, live_camera, live_lock, cams, dets, loc, fed>>
    /\ UNCHANGED videoVars

\* lines 227-228
stop_release(t) ==
    /\ pc[t] = "stop_227"
    /\ IF live_camera # None
       THEN /\ cams' = [cams EXCEPT ![live_camera] = "released"]
            /\ Goto(t, "stop_229")
       ELSE /\ Goto(t, "stop_231")
            /\ UNCHANGED cams
    /\ UNCHANGED <<live_detector, live_camera, live_active, live_lock, dets,
                   loc, fed>>
    /\ UNCHANGED videoVars

\* line 229 left out: the released handle stays in live_camera
stop_keep_camera(t) ==
    /\ pc[t] = "stop_229"
    /\ Goto(t, "stop_231")
    /\ UNCHANGED <<live_detector, live_camera, live_active, live_lock, cams,
                   dets, loc, fed>>
    /\ UNCHANGED videoVars

\* line 229
stop_clear_camera(t) ==
    /\ pc[t] = "stop_229"
    /\ live_camera' = None
    /\ cams' = [i \in CamIds |-> IF i = live_camera THEN "free" ELSE cams[i]]
    /\ Goto(t, "stop_231")
    /\ UNCHANGED <<live_detector, live_active, live_lock, dets, loc, fed>>
    /\ UNCHANGED videoVars

\* line 231: history refers to the list of the detector, when there is one
stop_history(t) ==
    /\ pc[t] = "stop_231"
    /\ loc' = [loc EXCEPT ![t].self = live_detector]
    /\ Goto(t, "stop_232")
    /\ UNCHANGED <<live_detector, live_camera, live_active, live_lock, cams,
                   dets, fed>>
    /\ UNCHANGED videoVars

\* lines 232-234
stop_discard(t) ==
    /\ pc[t] = "stop_232"
    /\ live_detector' = None
    /\ live_lock' = Unlocked
    /\ pc' = [pc EXCEPT ![t] = "ret"]
    /\ loc' = [u \in Threads |->
                 IF u = t
                 THEN [loc[t] EXCEPT
                          !.kind = "stopped", !.value = 0, !.self = None,
                          !.history = IF loc[t].self # None
                                      THEN dets[loc[t].self].history
                                      ELSE << >>]
                 ELSE IF u \in Streams /\ loc[u].stopped = 0
                         /\ pc[u] \notin {"idle", "live_90", "ret"}
                 THEN [loc[u] EXCEPT !.stopped = 1]
                 ELSE loc[u]]
    /\ dets' = Reclaim(dets, None, loc')
    /\ UNCHANGED <<live_camera, live_active, cams, fed>>
    /\ UNCHANGED videoVars

(***************************************************************************)
(* cv2.VideoCapture.read(): a frame from an open camera, or ret = False    *)
(* (hardware failure, handle never opened, handle released)                *)
(***************************************************************************)
ReadResults(h) == IF cams[h] = "open" THEN Frames \cup {NoFrame} ELSE {NoFrame}

(***************************************************************************)
(* set_roi, lines 244-256                                                  *)
(***************************************************************************)
\* line 252
set_roi_check(t) ==
    /\ pc[t] = "set_roi"
    /\ IF live_detector # None
       THEN Goto(t, "set_roi_253") /\ UNCHANGED loc
       ELSE Return(t, "Detector not initialized", 0, << >>)
    /\ UNCHANGED <<live_detector, live_camera, live_active, live_lock, cams,
                   dets, fed>>
    /\ UNCHANGED videoVars

\* lines 253-254
set_roi_apply(t) ==
    /\ pc[t] = "set_roi_253"
    /\ IF live_detector = None
       THEN Return(t, "AttributeError", 0, << >>) /\ UNCHANGED dets
       ELSE /\ dets' = [dets EXCEPT ![live_detector] =
                           set_door_frame(@, loc[t].roi)]
            /\ Return(t, "success", 0, << >>)
    /\ UNCHANGED <<live_detector, live_camera, live_active, live_lock, cams, fed>>
    /\ UNCHANGED videoVars

(***************************************************************************)
(* calibrate, lines 259-270                                                *)
(***************************************************************************)
\* line 264, left operand: live_detector
calibrate_check(t) ==
    /\ pc[t] = "calibrate"
    /\ IF live_detector # None
       THEN Goto(t, "calibrate_264") /\ UNCHANGED loc
       ELSE Return(t, "Not ready", 0, << >>)
    /\ UNCHANGED <<live_detector, live_camera, live_active, live_lock, cams,
                   dets, fed>>
    /\ UNCHANGED videoVars

\* line 264, right operand: live_camera
calibrate_check_camera(t) ==
    /\ pc[t] = "calibrate_264"
    /\ IF live_camera # None
       THEN Goto(t, "calibrate_265") /\ UNCHANGED loc
       ELSE Return(t, "Not ready", 0, << >>)
    /\ UNCHANGED <<live_detector, live_camera, live_active, live_lock, cams,
                   dets, fed>>
    /\ UNCHANGED videoVars

\* lines 265-266
calibrate_read(t) ==
    /\ pc[t] = "calibrate_265"
    /\ IF live_camera = None
       THEN Return(t, "AttributeError", 0, << >>)
       ELSE \E f \in ReadResults(live_camera) :
              IF f = NoFrame
              THEN Return(t, "Not ready", 0, << >>)
              ELSE /\ loc' = [loc EXCEPT ![t].frame = f]
                   /\ Goto(t, "calibrate_267")
    /\ UNCHANGED <<live_detector, live_camera, live_active, live_lock, cams,
                   dets, fed>>
    /\ UNCHANGED videoVars

\* line 267: live_detector is read and calibrate_closed runs up to the value
\* line 43 is about to store (lines 38-43)
calibrate_apply(t) ==
    /\ pc[t] = "calibrate_267"
    /\ IF live_detector = None
       THEN Return(t, "AttributeError", 0, << >>)
       ELSE LET r == calibrate_closed_crop(dets[live_detector], loc[t].frame)
            IN  IF r.ret = ""
                THEN /\ loc' = [loc EXCEPT ![t].self = live_detector,
                                           ![t].gray = r.gray]
                     /\ Goto(t, "closed_43")
                ELSE Return(t, CalibrateResponse(r.ret), 0, << >>)
    /\ UNCHANGED <<live_detector, live_camera, live_active, live_lock, cams,
                   dets, fed>>
    /\ UNCHANGED videoVars

\* calibrate_closed, line 43: the grey crop becomes self.reference_closed
closed_store_gray(t) ==
    /\ pc[t] = "closed_43"
    /\ dets' = [dets EXCEPT ![loc[t].self] =
                   calibrate_closed_store(@, loc[t].gray)]
    /\ loc' = [loc EXCEPT ![t].gray = NoImage]
    /\ Goto(t, "closed_44")
    /\ UNCHANGED <<live_detector, live_camera, live_active, live_lock, cams, fed>>
    /\ UNCHANGED videoVars

\* calibrate_closed, line 44, right-hand side: self.reference_closed is read
\* and blurred
closed_blur(t) ==
    /\ pc[t] = "closed_44"
    /\ loc' = [loc EXCEPT ![t].gray = calibrate_closed_blur(dets[loc[t].self])]
    /\ Goto(t, "closed_44_store")
    /\ UNCHANGED <<live_detector, live_camera, live_active, live_lock, cams,
                   dets, fed>>
    /\ UNCHANGED videoVars

\* calibrate_closed, line 44, the assignment, and line 45; the handler
\* answers with the result (lines 268 and 382)
closed_store_blur(t) ==
    /\ pc[t] = "closed_44_store"
    /\ Return(t, CalibrateResponse("True"), 0, << >>)
    /\ dets' = Reclaim([dets EXCEPT ![loc[t].self] =
                           calibrate_closed_store(@, loc[t].gray)],
                       live_detector, loc')
    /\ UNCHANGED <<live_detector, live_camera, live_active, live_lock, cams, fed>>
    /\ det_file' = Forget(det_file, dets')
    /\ UNCHANGED <<video_detector, current_video_path, video_filename, uploads>>

(***************************************************************************)
(* get_frame, lines 273-285                                                *)
(***************************************************************************)
\* line 278
get_frame_check(t) ==
    /\ pc[t] = "get_frame"
    /\ IF live_camera # None
       THEN Goto(t, "get_frame_279") /\ UNCHANGED loc
       ELSE Return(t, "failure", 0, << >>)
    /\ UNCHANGED <<live_detector, live_camera, live_active, live_lock, cams,
                   dets, fed>>
    /\ UNCHANGED videoVars

\* lines 279-285
get_frame_read(t) ==
    /\ pc[t] = "get_frame_279"
    /\ IF live_camera = None
       THEN Return(t, "AttributeError", 0, << >>)
       ELSE \E f \in ReadResults(live_camera) :
              IF f = NoFrame
              THEN Return(t, "failure", 0, << >>)
              ELSE /\ pc' = [pc EXCEPT ![t] = "ret"]
                   /\ loc' = [loc EXCEPT ![t].kind = "success", ![t].frame = f]
    /\ UNCHANGED <<live_detector, live_camera, live_active, live_lock, cams,
                   dets, fed>>
    /\ UNCHANGED videoVars

(***************************************************************************)
(* adjust_sensitivity, lines 288-304                                       *)
(***************************************************************************)
\* lines 297-300 without max() and min()
AdjustedThreshold_unclamped(thr, action) ==
    IF action = "increase" THEN thr - ThresholdStep
    ELSE IF action = "decrease" THEN thr + ThresholdStep
    ELSE thr

\* lines 297-300 with 'increase' raising and 'decrease' lowering the threshold
AdjustedThreshold_direct(thr, action) ==
    IF action = "increase" THEN Min2(ThresholdMax, thr + ThresholdStep)
    ELSE IF action = "decrease" THEN Max2(ThresholdMin, thr - ThresholdStep)
    ELSE thr

\* the new threshold of lines 297-300, in half percents
AdjustedThreshold(thr, action) ==
    IF action = "increase" THEN Max2(ThresholdMin, thr - ThresholdStep)
    ELSE IF action = "decrease" THEN Min2(ThresholdMax, thr + ThresholdStep)
    ELSE thr

\* line 296
adjust_check(t) ==
    /\ pc[t] = "adjust_sensitivity"
    /\ IF live_detector # None
       THEN Goto(t, "adjust_297") /\ UNCHANGED loc
       ELSE Return(t, "failure", 0, << >>)
    /\ UNCHANGED <<live_detector, live_camera, live_active, live_lock, cams,
                   dets, fed>>
    /\ UNCHANGED videoVars

\* lines 297-300, right-hand side: for 'increase' and 'decrease'
\* live_detector.threshold_percentage is read and max / min gives the new
\* value; any other action goes to line 302
adjust_compute(t) ==
    /\ pc[t] = "adjust_297"
    /\ IF loc[t].action \notin {"increase", "decrease"}
       THEN Goto(t, "adjust_302") /\ UNCHANGED loc
       ELSE IF live_detector = None
       THEN Return(t, "AttributeError", 0, << >>)
       ELSE /\ loc' = [loc EXCEPT ![t].value =
                          AdjustedThreshold(
                              dets[live_detector].threshold_percentage,
                              loc[t].action)]
            /\ Goto(t, "adjust_298")
    /\ UNCHANGED <<live_detector, live_camera, live_active, live_lock, cams,
                   dets, fed>>
    /\ UNCHANGED videoVars

\* lines 298 and 300, the assignment: live_detector is read again and the
\* value is stored in its threshold_percentage
adjust_store(t) ==
    /\ pc[t] = "adjust_298"
    /\ IF live_detector = None
       THEN Return(t, "AttributeError", 0, << >>) /\ UNCHANGED dets
       ELSE /\ dets' = [dets EXCEPT ![live_detector].threshold_percentage =
                           loc[t].value]
            /\ Goto(t, "adjust_302")
            /\ UNCHANGED loc
    /\ UNCHANGED <<live_detector, live_camera, live_active, live_lock, cams, fed>>
    /\ UNCHANGED videoVars

\* line 302
adjust_return(t) ==
    /\ pc[t] = "adjust_302"
    /\ IF live_detector = None
       THEN Return(t, "AttributeError", 0, << >>)
       ELSE Return(t, "success", dets[live_detector].threshold_percentage, << >>)
    /\ UNCHANGED <<live_detector, live_camera, live_active, live_lock, cams,
                   dets, fed>>
    /\ UNCHANGED videoVars

(***************************************************************************)
(* video_feed and generate_live_frames, lines 86-128 and 237-241           *)
(***************************************************************************)
\* the camera delivers frames to a stream while the model's bounds allow it
CanFeed(observe) ==
    IF observe THEN Len(fed) < MaxFed
    ELSE IF live_detector = None THEN TRUE
    ELSE Len(dets[live_detector].history) < MaxHist

\* line 240: the response starts to pull from a new generator
stream_open(t, serial) ==
    /\ pc[t] = "idle"
    /\ t \in Streams
    /\ serial => Alone(t)
    /\ loc' = [loc EXCEPT ![t].op = "video_feed"]
    /\ Goto(t, "live_90")
    /\ UNCHANGED <<live_detector, live_camera, live_active, live_lock, cams,
                   dets, fed>>
    /\ UNCHANGED videoVars

\* line 90: while live_active
stream_while(t) ==
    /\ pc[t] = "live_90"
    /\ IF live_active
       THEN /\ Goto(t, "live_91")
            /\ loc' = [loc EXCEPT ![t].stopped = 0]
       ELSE Return(t, "StopIteration", 0, << >>)
    /\ UNCHANGED <<live_detector, live_camera, live_active, live_lock, cams,
                   dets, fed>>
    /\ UNCHANGED videoVars

\* line 91, left operand: live_camera
stream_check(t) ==
    /\ pc[t] = "live_91"
    /\ IF live_camera = None
       THEN Return(t, "StopIteration", 0, << >>)
       ELSE Goto(t, "live_91_detector") /\ UNCHANGED loc
    /\ UNCHANGED <<live_detector, live_camera, live_active, live_lock, cams,
                   dets, fed>>
    /\ UNCHANGED videoVars

\* line 91, right operand: live_detector
stream_check_detector(t) ==
    /\ pc[t] = "live_91_detector"
    /\ IF live_detector = None
       THEN Return(t, "StopIteration", 0, << >>)
       ELSE Goto(t, "live_94") /\ UNCHANGED loc
    /\ UNCHANGED <<live_detector, live_camera, live_active, live_lock, cams,
                   dets, fed>>
    /\ UNCHANGED videoVars

\* a read that is tried again after a failure
stream_read_retry(t, observe) ==
    /\ pc[t] = "live_94"
    /\ IF live_camera = None
       THEN Return(t, "AttributeError", 0, << >>)
       ELSE \E f \in ReadResults(live_camera) :
              IF f = NoFrame
              THEN Goto(t, "live_90") /\ UNCHANGED loc
              ELSE /\ CanFeed(observe)
                   /\ loc' = [loc EXCEPT ![t].frame = f]
                   /\ Goto(t, "live_101")
    /\ UNCHANGED <<live_detector, live_camera, live_active, live_lock, cams,
                   dets, fed>>
    /\ UNCHANGED videoVars

\* lines 94-98
stream_read(t, observe) ==
    /\ pc[t] = "live_94"
    /\ IF live_camera = None
       THEN Return(t, "AttributeError", 0, << >>)
       ELSE \E f \in ReadResults(live_camera) :
              IF f = NoFrame
              THEN Return(t, "StopIteration", 0, << >>)
              ELSE /\ CanFeed(observe)
                   /\ loc' = [loc EXCEPT ![t].frame = f]
                   /\ Goto(t, "live_101")
    /\ UNCHANGED <<live_detector, live_camera, live_active, live_lock, cams,
                   dets, fed>>
    /\ UNCHANGED videoVars

\* line 101: if live_detector.door_roi
stream_draw_roi(t) ==
    /\ pc[t] = "live_101"
    /\ IF live_detector = None
       THEN Return(t, "AttributeError", 0, << >>)
       ELSE IF dets[live_detector].door_roi # NoRoi
       THEN Goto(t, "live_102") /\ UNCHANGED loc
       ELSE Goto(t, "live_108") /\ UNCHANGED loc
    /\ UNCHANGED <<live_detector, live_camera, live_active, live_lock, cams,
                   dets, fed>>
    /\ UNCHANGED videoVars

\* lines 102-105: live_detector.door_roi is read again and unpacked; None
\* cannot be unpacked
stream_unpack_roi(t) ==
    /\ pc[t] = "live_102"
    /\ IF live_detector = None
       THEN Return(t, "AttributeError", 0, << >>)
       ELSE IF dets[live_detector].door_roi = NoRoi
       THEN Return(t, "TypeError", 0, << >>)
       ELSE Goto(t, "live_108") /\ UNCHANGED loc
    /\ UNCHANGED <<live_detector, live_camera, live_active, live_lock, cams,
                   dets, fed>>
    /\ UNCHANGED videoVars

\* line 108: live_detector is read and detect_door_status runs up to the
\* blurred grey crop (lines 49-55), or returns "Not Calibrated" (line 50)
stream_detect(t, observe) ==
    /\ pc[t] = "live_108"
    /\ IF live_detector = None
       THEN Return(t, "AttributeError", 0, << >>) /\ UNCHANGED fed
       ELSE LET d == dets[live_detector]
                e == detect_not_calibrated(d)
                g == detect_current_gray(d, loc[t].frame)
            IN  IF e # ""
                THEN /\ loc' = [loc EXCEPT ![t].status = e, ![t].pct = <<0, 1>>]
                     /\ Goto(t, IF e \in {"OPEN", "CLOSED"}
                                THEN "live_112" ELSE "live_120")
                     /\ fed' = IF observe /\ e \in {"OPEN", "CLOSED"}
                               THEN Append(fed, e) ELSE fed
                ELSE IF g = NoImage
                THEN Return(t, "cv2.error", 0, << >>) /\ UNCHANGED fed
                ELSE /\ loc' = [loc EXCEPT ![t].self = live_detector,
                                           ![t].gray = g]
                     /\ Goto(t, "live_57")
                     /\ UNCHANGED fed
    /\ UNCHANGED <<live_detector, live_camera, live_active, live_lock, cams, dets>>
    /\ UNCHANGED videoVars

\* detect_door_status, lines 57-61: self.reference_closed is read and
\* compared with the crop
stream_diff(t) ==
    /\ pc[t] = "live_57"
    /\ LET c == detect_change(dets[loc[t].self].reference_closed, loc[t].gray)
       IN  IF c.error
           THEN /\ Return(t, "cv2.error", 0, << >>)
                /\ dets' = Reclaim(dets, live_detector, loc')
           ELSE /\ loc' = [loc EXCEPT ![t].pct = c.change_percentage,
                                      ![t].gray = NoImage]
                /\ Goto(t, "live_63")
                /\ UNCHANGED dets
    /\ UNCHANGED <<live_detector, live_camera, live_active, live_lock, cams, fed>>
    /\ det_file' = Forget(det_file, dets')
    /\ UNCHANGED <<video_detector, current_video_path, video_filename, uploads>>

\* detect_door_status, lines 63-77: self.threshold_percentage is read and
\* decides the status; back in the generator, line 111
stream_status(t, observe) ==
    /\ pc[t] = "live_63"
    /\ LET s == detect_status(loc[t].pct,
                              dets[loc[t].self].threshold_percentage)
       IN  /\ loc' = [loc EXCEPT ![t].status = s, ![t].self = None]
           /\ fed' = IF observe THEN Append(fed, s) ELSE fed
    /\ dets' = Reclaim(dets, live_detector, loc')
    /\ Goto(t, "live_112")
    /\ UNCHANGED <<live_detector, live_camera, live_active, live_lock, cams>>
    /\ det_file' = Forget(det_file, dets')
    /\ UNCHANGED <<video_detector, current_video_path, video_filename, uploads>>

\* line 112: live_detector is read and log_status is called (line 81)
stream_log_call(t) ==
    /\ pc[t] = "live_112"
    /\ IF live_detector = None
       THEN Return(t, "AttributeError", 0, << >>)
       ELSE /\ loc' = [loc EXCEPT ![t].self = live_detector]
            /\ Goto(t, "log_82")
    /\ UNCHANGED <<live_detector, live_camera, live_active, live_lock, cams,
                   dets, fed>>
    /\ UNCHANGED videoVars

\* in log_status, line 82
stream_log_test(t) ==
    /\ pc[t] = "log_82"
    /\ IF log_status_test(dets[loc[t].self], loc[t].status)
       THEN /\ Goto(t, "log_83")
            /\ UNCHANGED <<loc, dets>>
       ELSE /\ loc' = [loc EXCEPT ![t].self = None]
            /\ dets' = Reclaim(dets, live_detector, loc')
            /\ Goto(t, "live_120")
    /\ UNCHANGED <<live_detector, live_camera, live_active, live_lock, cams, fed>>
    /\ det_file' = Forget(det_file, dets')
    /\ UNCHANGED <<video_detector, current_video_path, video_filename, uploads>>

\* in log_status, line 83
stream_log_append(t) ==
    /\ pc[t] = "log_83"
    /\ loc' = [loc EXCEPT ![t].self = None]
    /\ dets' = Reclaim([dets EXCEPT ![loc[t].self] =
                           log_status_append(@, loc[t].status)],
                       live_detector, loc')
    /\ Goto(t, "live_120")
    /\ UNCHANGED <<live_detector, live_camera, live_active, live_lock, cams, fed>>
    /\ UNCHANGED videoVars

\* lines 115-125: live_detector.threshold_percentage is read for the overlay
stream_overlay(t) ==
    /\ pc[t] = "live_120"
    /\ IF live_detector = None
       THEN Return(t, "AttributeError", 0, << >>)
       ELSE /\ loc' = [loc EXCEPT ![t].value =
                          dets[live_detector].threshold_percentage]
            /\ Goto(t, "live_127")
    /\ UNCHANGED <<live_detector, live_camera, live_active, live_lock, cams,
                   dets, fed>>
    /\ UNCHANGED videoVars

\* lines 127-128: the generator yields the encoded frame and is suspended
stream_yield(t) ==
    /\ pc[t] = "live_127"
    /\ loc' = [loc EXCEPT ![t].kind = "frame"]
    /\ Goto(t, "yield")
    /\ UNCHANGED <<live_detector, live_camera, live_active, live_lock, cams,
                   dets, fed>>
    /\ UNCHANGED videoVars

\* the consumer asks for the next frame
stream_resume(t, serial) ==
    /\ pc[t] = "yield"
    /\ serial => Alone(t)
    /\ loc' = [loc EXCEPT ![t] = [InitLoc EXCEPT !.op = "video_feed",
                                                 !.stopped = loc[t].stopped]]
    /\ Goto(t, "live_90")
    /\ UNCHANGED <<live_detector, live_camera, live_active, live_lock, cams,
                   dets, fed>>
    /\ UNCHANGED videoVars

(***************************************************************************)
(* The video job: the globals of lines 19-21, the uploads directory, and   *)
(* the files a client can post to /upload_video.  A file is known by its   *)
(* name, which decides its frames; "bad.mp4" is a file that cv2 cannot     *)
(* decode.  The path a content is saved under is decided at line 321.      *)
(***************************************************************************)
Video(name) ==
    IF name = "a.mp4" THEN <<FrameClosed, FrameClosed, FrameOpen>>
    ELSE IF name = "b.mp4" THEN <<FrameOpen, FrameAjar>>
    ELSE << >>

\* os.path.exists(path)
Exists(path) == path # NoPath /\ uploads[path] # NoPath

\* cv2.VideoCapture(path): the content the capture is opened on, NoPath when
\* there is no file at the path or cv2 cannot decode it (isOpened() False)
VideoCapture(path) ==
    IF Exists(path) /\ Video(uploads[path]) # << >> THEN uploads[path]
    ELSE NoPath

\* the frame of a content at position pos (0-based), NoFrame past the end
FrameAt(content, pos) ==
    IF pos < Len(Video(content)) THEN Video(content)[pos + 1] ELSE NoFrame

\* cap.read() at position pos of a capture made for path and opened on the
\* content opened: a capture that is not open reads nothing, whatever is
\* saved later; when line 321 has since put another content under the open
\* capture the decoder reads a file that was rewritten under it, and gives
\* the frame of the old content, of the new one, or none
VideoRead(path, opened, pos) ==
    IF opened = NoPath THEN {NoFrame}
    ELSE IF uploads[path] = opened THEN {FrameAt(opened, pos)}
    ELSE {FrameAt(opened, pos), FrameAt(uploads[path], pos), NoFrame}

\* a request for one of the video routes arrives, with its file or rectangle
BeginVideo(t, ops, rois, files, serial) ==
    /\ pc[t] = "idle"
    /\ t \in Clients
    /\ serial => Alone(t)
    /\ \E op \in ops :
         \E roi \in (IF op = "set_video_roi" THEN rois ELSE {NoRoi}) :
           \E f \in (IF op = "upload_video" THEN files ELSE {NoPath}) :
             /\ loc' = [loc EXCEPT ![t].op = op, ![t].roi = roi, ![t].file = f]
             /\ Goto(t, op)
    /\ UNCHANGED <<live_detector, live_camera, live_active, live_lock, cams,
                   dets, fed>>
    /\ UNCHANGED videoVars

(***************************************************************************)
(* upload_video, lines 307-347                                             *)
(***************************************************************************)
\* lines 312-316: a request without a file is refused; video_filename
upload_name(t) ==
    /\ pc[t] = "upload_video"
    /\ IF loc[t].file = NoPath
       THEN Return(t, "No video file", 0, << >>) /\ UNCHANGED video_filename
       ELSE /\ video_filename' = loc[t].file
            /\ Goto(t, "upload_320")
            /\ UNCHANGED loc
    /\ UNCHANGED <<live_detector, live_camera, live_active, live_lock, cams,
                   dets, fed, video_detector, current_video_path, uploads,
                   det_file>>

\* lines 319-320: current_video_path is replaced
upload_path(t) ==
    /\ pc[t] = "upload_320"
    /\ current_video_path' = video_filename
    /\ Goto(t, "upload_321")
    /\ UNCHANGED <<live_detector, live_camera, live_active, live_lock, cams,
                   dets, loc, fed, video_detector, video_filename, uploads,
                   det_file>>

\* line 321: the content of the file of the request is saved under the path
\* current_video_path names now
upload_save(t) ==
    /\ pc[t] = "upload_321"
    /\ uploads' = [uploads EXCEPT ![current_video_path] = loc[t].file]
    /\ Goto(t, "upload_324")
    /\ UNCHANGED <<live_detector, live_camera, live_active, live_lock, cams,
                   dets, loc, fed, video_detector, current_video_path,
                   video_filename, det_file>>

\* line 324: video_detector is replaced by a fresh detector
upload_detector(t) ==
    /\ pc[t] = "upload_324"
    /\ LET n == FreshDet(dets)
       IN  /\ video_detector' = n
           /\ dets' = Keep([dets EXCEPT ![n] = NewDetector], live_detector, n, loc)
           /\ det_file' = [i \in DetIds |->
                              IF i = n THEN loc[t].file
                              ELSE IF dets'[i] = NoDetector THEN NoPath
                              ELSE det_file[i]]
    /\ Goto(t, "upload_326")
    /\ UNCHANGED <<live_detector, live_camera, live_active, live_lock, cams,
                   loc, fed, current_video_path, video_filename, uploads>>

\* lines 326-328: a capture is opened on the file current_video_path names
\* now
upload_probe(t) ==
    /\ pc[t] = "upload_326"
    /\ loc' = [loc EXCEPT ![t].cap = current_video_path,
                          ![t].opened = VideoCapture(current_video_path)]
    /\ Goto(t, "upload_331")
    /\ UNCHANGED <<live_detector, live_camera, live_active, live_lock, cams,
                   dets, fed>>
    /\ UNCHANGED videoVars

\* lines 331-347: the first frame is read for the response, which carries
\* the frame count of the capture
upload_first_frame(t) ==
    /\ pc[t] = "upload_331"
    /\ \E f \in VideoRead(loc[t].cap, loc[t].opened, 0) :
         /\ pc' = [pc EXCEPT ![t] = "ret"]
         /\ loc' = [loc EXCEPT
                       ![t].kind = IF f = NoFrame THEN "Could not read video"
                                   ELSE "success",
                       ![t].value = IF f = NoFrame THEN 0
                                    ELSE Len(Video(loc[t].opened)),
                       ![t].cap = NoPath, ![t].opened = NoPath]
    /\ UNCHANGED <<live_detector, live_camera, live_active, live_lock, cams,
                   dets, fed>>
    /\ UNCHANGED videoVars

(***************************************************************************)
(* set_video_roi, lines 350-362                                            *)
(***************************************************************************)
\* line 358
set_video_roi_check(t) ==
    /\ pc[t] = "set_video_roi"
    /\ IF video_detector # None
       THEN Goto(t, "set_video_roi_359") /\ UNCHANGED loc
       ELSE Return(t, "failure", 0, << >>)
    /\ UNCHANGED <<live_detector, live_camera, live_active, live_lock, cams,
                   dets, fed>>
    /\ UNCHANGED videoVars

\* lines 359-360
set_video_roi_apply(t) ==
    /\ pc[t] = "set_video_roi_359"
    /\ dets' = [dets EXCEPT ![video_detector] = set_door_frame(@, loc[t].roi)]
    /\ Return(t, "success", 0, << >>)
    /\ UNCHANGED <<live_detector, live_camera, live_active, live_lock, cams, fed>>
    /\ UNCHANGED videoVars

(***************************************************************************)
(* calibrate_video, lines 365-383                                          *)
(***************************************************************************)
\* line 370
calibrate_video_check(t) ==
    /\ pc[t] = "calibrate_video"
    /\ IF video_detector = None \/ current_video_path = NoPath
       THEN Return(t, "Not ready", 0, << >>)
       ELSE Goto(t, "calibrate_video_373") /\ UNCHANGED loc
    /\ UNCHANGED <<live_detector, live_camera, live_active, live_lock, cams,
                   dets, fed>>
    /\ UNCHANGED videoVars

\* line 373: a capture is opened on the file current_video_path names now
calibrate_video_read(t) ==
    /\ pc[t] = "calibrate_video_373"
    /\ loc' = [loc EXCEPT ![t].cap = current_video_path,
                          ![t].opened = VideoCapture(current_video_path)]
    /\ Goto(t, "calibrate_video_374")
    /\ UNCHANGED <<live_detector, live_camera, live_active, live_lock, cams,
                   dets, fed>>
    /\ UNCHANGED videoVars

\* lines 374-378: its first frame
calibrate_video_frame(t) ==
    /\ pc[t] = "calibrate_video_374"
    /\ \E f \in VideoRead(loc[t].cap, loc[t].opened, 0) :
         IF f = NoFrame
         THEN Return(t, "Could not read video", 0, << >>)
         ELSE /\ loc' = [loc EXCEPT ![t].frame = f, ![t].cap = NoPath,
                                    ![t].opened = NoPath]
              /\ Goto(t, "calibrate_video_381")
    /\ UNCHANGED <<live_detector, live_camera, live_active, live_lock, cams,
                   dets, fed>>
    /\ UNCHANGED videoVars

\* line 381: video_detector is read and calibrate_closed runs up to the
\* value line 43 is about to store (lines 38-43)
calibrate_video_apply(t) ==
    /\ pc[t] = "calibrate_video_381"
    /\ LET r == calibrate_closed_crop(dets[video_detector], loc[t].frame)
       IN  IF r.ret = ""
           THEN /\ loc' = [loc EXCEPT ![t].self = video_detector,
                                      ![t].gray = r.gray]
                /\ Goto(t, "closed_43")
           ELSE Return(t, CalibrateResponse(r.ret), 0, << >>)
    /\ UNCHANGED <<live_detector, live_camera, live_active, live_lock, cams,
                   dets, fed>>
    /\ UNCHANGED videoVars

(***************************************************************************)
(* video_playback_feed and generate_video_playback, lines 131-189 and      *)
(* 386-390                                                                 *)
(***************************************************************************)
\* line 389: the response starts to pull from a new generator
play_open(t, serial) ==
    /\ pc[t] = "idle"
    /\ t \in Streams
    /\ serial => Alone(t)
    /\ loc' = [loc EXCEPT ![t].op = "video_playback_feed"]
    /\ Goto(t, "play_135")
    /\ UNCHANGED <<live_detector, live_camera, live_active, live_lock, cams,
                   dets, fed>>
    /\ UNCHANGED videoVars

\* lines 135-136
play_check(t) ==
    /\ pc[t] = "play_135"
    /\ IF ~Exists(current_video_path)
       THEN Return(t, "StopIteration", 0, << >>)
       ELSE Goto(t, "play_138") /\ UNCHANGED loc
    /\ UNCHANGED <<live_detector, live_camera, live_active, live_lock, cams,
                   dets, fed>>
    /\ UNCHANGED videoVars

\* lines 138-141: cap is made for the path current_video_path names now, and
\* is open when a file that cv2 can decode is there now
play_capture(t) ==
    /\ pc[t] = "play_138"
    /\ loc' = [loc EXCEPT ![t].cap = current_video_path,
                          ![t].opened = VideoCapture(current_video_path),
                          ![t].pos = 0, ![t].frame_count = 0]
    /\ Goto(t, "play_144")
    /\ UNCHANGED <<live_detector, live_camera, live_active, live_lock, cams,
                   dets, fed>>
    /\ UNCHANGED videoVars

\* lines 144-148
play_read(t) ==
    /\ pc[t] = "play_144"
    /\ \E f \in VideoRead(loc[t].cap, loc[t].opened, loc[t].pos) :
         IF f = NoFrame
         THEN Goto(t, "play_189") /\ UNCHANGED loc
         ELSE /\ loc' = [loc EXCEPT ![t].frame = f, ![t].pos = @ + 1]
              /\ Goto(t, "play_151")
    /\ UNCHANGED <<live_detector, live_camera, live_active, live_lock, cams,
                   dets, fed>>
    /\ UNCHANGED videoVars

\* line 151: if video_detector and video_detector.door_roi
play_draw_roi(t) ==
    /\ pc[t] = "play_151"
    /\ IF video_detector # None /\ dets[video_detector].door_roi # NoRoi
       THEN Goto(t, "play_152")
       ELSE Goto(t, "play_155")
    /\ UNCHANGED loc
    /\ UNCHANGED <<live_detector, live_camera, live_active, live_lock, cams,
                   dets, fed>>
    /\ UNCHANGED videoVars

\* lines 152-153: video_detector.door_roi is read again and unpacked; None
\* cannot be unpacked
play_unpack_roi(t) ==
    /\ pc[t] = "play_152"
    /\ IF dets[video_detector].door_roi = NoRoi
       THEN Return(t, "TypeError", 0, << >>)
       ELSE Goto(t, "play_155") /\ UNCHANGED loc
    /\ UNCHANGED <<live_detector, live_camera, live_active, live_lock, cams,
                   dets, fed>>
    /\ UNCHANGED videoVars

\* lines 155-156: the detector video_detector refers to now classifies the
\* frame; detect_door_status runs up to the blurred grey crop (lines 49-55),
\* or returns "Not Calibrated" (line 50)
play_detect(t) ==
    /\ pc[t] = "play_155"
    /\ IF video_detector = None
       THEN /\ loc' = [loc EXCEPT ![t].status = ""]
            /\ Goto(t, "play_180")
       ELSE LET d == dets[video_detector]
                e == detect_not_calibrated(d)
                g == detect_current_gray(d, loc[t].frame)
            IN  IF e # ""
                THEN /\ loc' = [loc EXCEPT ![t].status = e, ![t].pct = <<0, 1>>]
                     /\ Goto(t, "play_180")
                ELSE IF g = NoImage
                THEN Return(t, "cv2.error", 0, << >>)
                ELSE /\ loc' = [loc EXCEPT ![t].self = video_detector,
                                           ![t].gray = g]
                     /\ Goto(t, "play_57")
    /\ UNCHANGED <<live_detector, live_camera, live_active, live_lock, cams,
                   dets, fed>>
    /\ UNCHANGED videoVars

\* detect_door_status, lines 57-61, for the playback
play_diff(t) ==
    /\ pc[t] = "play_57"
    /\ LET c == detect_change(dets[loc[t].self].reference_closed, loc[t].gray)
       IN  IF c.error
           THEN /\ Return(t, "cv2.error", 0, << >>)
                /\ dets' = Reclaim(dets, live_detector, loc')
           ELSE /\ loc' = [loc EXCEPT ![t].pct = c.change_percentage,
                                      ![t].gray = NoImage]
                /\ Goto(t, "play_63")
                /\ UNCHANGED dets
    /\ UNCHANGED <<live_detector, live_camera, live_active, live_lock, cams, fed>>
    /\ det_file' = Forget(det_file, dets')
    /\ UNCHANGED <<video_detector, current_video_path, video_filename, uploads>>

\* detect_door_status, lines 63-77, for the playback; nothing is logged
play_status(t) ==
    /\ pc[t] = "play_63"
    /\ loc' = [loc EXCEPT ![t].status =
                  detect_status(loc[t].pct,
                                dets[loc[t].self].threshold_percentage),
                          ![t].self = None]
    /\ dets' = Reclaim(dets, live_detector, loc')
    /\ Goto(t, "play_180")
    /\ UNCHANGED <<live_detector, live_camera, live_active, live_lock, cams, fed>>
    /\ det_file' = Forget(det_file, dets')
    /\ UNCHANGED <<video_detector, current_video_path, video_filename, uploads>>

\* lines 180-187: frame_count, and the generator yields the encoded frame
play_yield(t) ==
    /\ pc[t] = "play_180"
    /\ loc' = [loc EXCEPT ![t].frame_count = @ + 1, ![t].kind = "frame"]
    /\ Goto(t, "play_yield")
    /\ UNCHANGED <<live_detector, live_camera, live_active, live_lock, cams,
                   dets, fed>>
    /\ UNCHANGED videoVars

\* the consumer asks for the next frame
play_resume(t, serial) ==
    /\ pc[t] = "play_yield"
    /\ serial => Alone(t)
    /\ loc' = [loc EXCEPT ![t].frame = NoFrame, ![t].status = "",
                          ![t].pct = <<0, 1>>, ![t].kind = ""]
    /\ Goto(t, "play_144")
    /\ UNCHANGED <<live_detector, live_camera, live_active, live_lock, cams,
                   dets, fed>>
    /\ UNCHANGED videoVars

\* line 189: after the loop, cap is released and the generator returns
play_end(t) ==
    /\ pc[t] = "play_189"
    /\ Return(t, "StopIteration", 0, << >>)
    /\ UNCHANGED <<live_detector, live_camera, live_active, live_lock, cams,
                   dets, fed>>
    /\ UNCHANGED videoVars

(***************************************************************************)
(* Specifications                                                          *)
(***************************************************************************)
\* the steps of each handler
StartSteps(t) ==
    \/ start_lock(t)
    \/ start_check(t)
    \/ start_open(t)
    \/ start_detector(t)
    \/ start_activate(t)

StopSteps(t) ==
    \/ stop_lock(t)
    \/ stop_deactivate(t)
    \/ stop_release(t)
    \/ stop_clear_camera(t)
    \/ stop_history(t)
    \/ stop_discard(t)

SetRoiSteps(t) == set_roi_check(t) \/ set_roi_apply(t)

ClosedSteps(t) == closed_store_gray(t) \/ closed_blur(t) \/ closed_store_blur(t)

CalibrateSteps(t) ==
    \/ calibrate_check(t)
    \/ calibrate_check_camera(t)
    \/ calibrate_read(t)
    \/ calibrate_apply(t)
    \/ ClosedSteps(t)

GetFrameSteps(t) == get_frame_check(t) \/ get_frame_read(t)

AdjustSteps(t) ==
    \/ adjust_check(t)
    \/ adjust_compute(t)
    \/ adjust_store(t)
    \/ adjust_return(t)

StreamSteps(t, observe, serial) ==
    \/ stream_open(t, serial)
    \/ stream_while(t)
    \/ stream_check(t)
    \/ stream_check_detector(t)
    \/ stream_read(t, observe)
    \/ stream_draw_roi(t)
    \/ stream_unpack_roi(t)
    \/ stream_detect(t, observe)
    \/ stream_diff(t)
    \/ stream_status(t, observe)
    \/ stream_log_call(t)
    \/ stream_log_test(t)
    \/ stream_log_append(t)
    \/ stream_overlay(t)
    \/ stream_yield(t)
    \/ stream_resume(t, serial)
    \/ Done(t)

(***************************************************************************)
(* Spec: one client and one stream consumer, requests served one at a      *)
(* time (a stream is interleaved at its yields); the threshold stays at    *)
(* its initial value.                                                      *)
(***************************************************************************)
SessionOps == {"start_live", "stop_live", "set_roi", "calibrate", "get_frame"}

ClientNext(t) ==
    \/ Begin(t, SessionOps, Rois, Actions, TRUE)
    \/ Done(t)
    \/ StartSteps(t)
    \/ StopSteps(t)
    \/ SetRoiSteps(t)
    \/ CalibrateSteps(t)
    \/ GetFrameSteps(t)

Next ==
    \/ ClientNext("c1")
    \/ StreamSteps("s1", FALSE, TRUE)

Spec == Init /\ [][Next]_vars

(***************************************************************************)
(* SpecSens: one client starts, stops and adjusts the sensitivity.          *)
(***************************************************************************)
SensOps == {"start_live", "stop_live", "adjust_sensitivity"}

SensClientNext(t) ==
    \/ Begin(t, SensOps, Rois, Actions, TRUE)
    \/ Done(t)
    \/ StartSteps(t)
    \/ StopSteps(t)
    \/ AdjustSteps(t)

NextSens == SensClientNext("c1")

SpecSens == Init /\ [][NextSens]_vars

(***************************************************************************)
(* SpecClassify: a stream classifies camera frames with a calibrated live  *)
(* detector, for every ROI, reference frame and threshold the handlers can *)
(* have set.                                                               *)
(***************************************************************************)
Calibrated(roi, f, thr) ==
    [calibrate_closed(set_door_frame(NewDetector, roi), f).det
        EXCEPT !.threshold_percentage = thr]

InitClassify ==
    /\ live_detector = 1
    /\ live_camera = 1
    /\ live_active = TRUE
    /\ live_lock = Unlocked
    /\ cams = [i \in CamIds |-> IF i = 1 THEN "open" ELSE "free"]
    /\ \E roi \in Rois, f \in Frames, thr \in ThresholdMin..ThresholdMax :
         dets = [i \in DetIds |->
                    IF i = 1 THEN Calibrated(roi, f, thr) ELSE NoDetector]
    /\ pc = [t \in Threads |-> "idle"]
    /\ loc = [t \in Threads |-> InitLoc]
    /\ fed = << >>
    /\ VideoNone

NextClassify == StreamSteps("s1", FALSE, TRUE)

SpecClassify == InitClassify /\ [][NextClassify]_vars

(***************************************************************************)
(* SpecFeed: a single stream feeds camera frames to the detector of a      *)
(* session that has just been started and calibrated (empty history,       *)
(* initial threshold), with the observer recording every OPEN/CLOSED       *)
(* result the stream obtains.                                              *)
(***************************************************************************)
InitRunning ==
    /\ live_detector = 1
    /\ live_camera = 1
    /\ live_active = TRUE
    /\ live_lock = Unlocked
    /\ cams = [i \in CamIds |-> IF i = 1 THEN "open" ELSE "free"]
    /\ \E roi \in Rois, f \in Frames :
         dets = [i \in DetIds |->
                    IF i = 1 THEN Calibrated(roi, f, ThresholdInit)
                    ELSE NoDetector]
    /\ pc = [t \in Threads |-> "idle"]
    /\ loc = [t \in Threads |-> InitLoc]
    /\ fed = << >>
    /\ VideoNone

NextFeed == StreamSteps("s1", TRUE, TRUE)

SpecFeed == InitRunning /\ [][NextFeed]_vars

(***************************************************************************)
(* SpecConc: two clients that start and stop the session run as threads of *)
(* the threaded server; every step of a handler can be interleaved with    *)
(* the steps of the other.                                                 *)
(***************************************************************************)
LifecycleOps == {"start_live", "stop_live"}

LifecycleNext(t) ==
    \/ Begin(t, LifecycleOps, Rois, Actions, FALSE)
    \/ Done(t)
    \/ StartSteps(t)
    \/ StopSteps(t)

NextConc == \E t \in Clients : LifecycleNext(t)

SpecConc == Init /\ [][NextConc]_vars

(***************************************************************************)
(* SpecConcStream: a stream consumer pulls frames from a session that has  *)
(* been started and calibrated while a client stops and starts the         *)
(* session, as threads of the threaded server.                             *)
(***************************************************************************)
NextConcStream ==
    \/ LifecycleNext("c1")
    \/ StreamSteps("s1", FALSE, FALSE)

SpecConcStream == InitRunning /\ [][NextConcStream]_vars

(***************************************************************************)
(* SpecConcOps: one client starts and stops the session while another      *)
(* posts /set_roi, /calibrate and /adjust_sensitivity requests, as threads *)
(* of the threaded server.                                                 *)
(***************************************************************************)
SettingOps == {"set_roi", "calibrate", "adjust_sensitivity"}

SettingNext(t) ==
    \/ Begin(t, SettingOps, {RoiFull}, {"increase"}, FALSE)
    \/ Done(t)
    \/ SetRoiSteps(t)
    \/ CalibrateSteps(t)
    \/ AdjustSteps(t)

NextConcOps ==
    \/ LifecycleNext("c1")
    \/ SettingNext("c2")

SpecConcOps == Init /\ [][NextConcOps]_vars

(***************************************************************************)
(* SpecConcCalibrate: a stream consumer pulls frames from a session that   *)
(* has been started and calibrated while a client posts /set_roi and       *)
(* /calibrate requests, as threads of the threaded server: the stream can  *)
(* classify between any two accesses of calibrate_closed to the detector,  *)
(* and the client can act between any two of detect_door_status.           *)
(***************************************************************************)
CalibrateOps == {"set_roi", "calibrate"}

CalibrateNext(t) ==
    \/ Begin(t, CalibrateOps, Rois \cup {RoiMid}, Actions, FALSE)
    \/ Done(t)
    \/ SetRoiSteps(t)
    \/ CalibrateSteps(t)

NextConcCalibrate ==
    \/ CalibrateNext("c1")
    \/ StreamSteps("s1", FALSE, FALSE)

SpecConcCalibrate == InitRunning /\ [][NextConcCalibrate]_vars

(***************************************************************************)
(* SpecConcAdjust: two clients post /adjust_sensitivity requests to a      *)
(* running session, as threads of the threaded server: the read of the     *)
(* threshold and the assignment of lines 298 and 300 of one request can be *)
(* separated by the steps of the other.                                    *)
(***************************************************************************)
AdjustOps == {"adjust_sensitivity"}

AdjustNext(t) ==
    \/ Begin(t, AdjustOps, Rois, {"increase", "decrease"}, FALSE)
    \/ Done(t)
    \/ AdjustSteps(t)

NextConcAdjust == \E t \in Clients : AdjustNext(t)

SpecConcAdjust == InitRunning /\ [][NextConcAdjust]_vars

(***************************************************************************)
(* Properties                                                              *)
(***************************************************************************)
TypeOK ==
    /\ live_detector \in {None} \cup DetIds
    /\ live_camera \in {None} \cup CamIds
    /\ live_active \in BOOLEAN
    /\ live_lock \in {Unlocked} \cup Threads

IsCalibrated(d) == d.door_roi # NoRoi /\ d.reference_closed # NoImage

\* the stream t holds the result of the classification of its current frame
Classified(t) ==
    /\ pc[t] \in {"live_112", "log_82", "log_83", "live_120", "live_127",
                  "yield"}
    /\ live_detector # None

\* C1: a calibrated detector with threshold t (half percents) that computes
\* the change percentage p for a frame returns OPEN exactly when p > t and
\* CLOSED exactly when p <= t; p = t gives CLOSED. p is the double of line
\* 61 for the ratio num/den: it is above t when the ratio is, or when the
\* ratio equals t and the rounding of line 61 ends one ulp above.
C1_ClassifyByThreshold ==
    \A t \in Streams :
        Classified(t) /\ IsCalibrated(dets[live_detector]) =>
            LET thr == dets[live_detector].threshold_percentage
                num == loc[t].pct[1]
                den == loc[t].pct[2]
                above == \/ 2 * num > thr * den
                         \/ 2 * num = thr * den /\ thr \in FloatTieAbove
            IN  /\ loc[t].status \in {"OPEN", "CLOSED"}
                /\ den > 0
                /\ (loc[t].status = "OPEN") <=> above
                /\ (loc[t].status = "CLOSED") <=> ~above
                /\ (2 * num = thr * den /\ thr \notin FloatTieAbove)
                      => loc[t].status = "CLOSED"

\* C1 witness: a frame whose change percentage equals the threshold (12.5)
\* has been classified CLOSED
C1_Witness ==
    /\ Classified("s1")
    /\ loc["s1"].status = "CLOSED"
    /\ loc["s1"].pct[1] > 0
    /\ 2 * loc["s1"].pct[1] =
           dets[live_detector].threshold_percentage * loc["s1"].pct[2]

\* run-length compression of a sequence of statuses
RECURSIVE RunLengthCompress(_)
RunLengthCompress(q) ==
    IF Len(q) <= 1 THEN q
    ELSE LET rest == RunLengthCompress(SubSeq(q, 1, Len(q) - 1))
         IN  IF q[Len(q)] = q[Len(q) - 1] THEN rest
             ELSE Append(rest, q[Len(q)])

HistoryStatuses(d) == [i \in 1..Len(d.history) |-> d.history[i].status]

\* the stream t is between two frames, or has logged the current one
Logged(t) == pc[t] \in {"idle", "live_90", "live_91", "live_91_detector",
                        "live_94", "live_101", "live_102", "live_108",
                        "live_57", "live_63", "live_120", "live_127", "yield",
                        "ret"}

\* C2: once a single stream has logged the OPEN/CLOSED results fed so far to
\* a fresh detector, the statuses of the history are the run-length
\* compression of the results fed, the first result included.
C2_HistoryIsCompression ==
    Logged("s1") =>
        HistoryStatuses(dets[1]) = RunLengthCompress(fed)

\* C2 witness: CLOSED, CLOSED, OPEN, OPEN, CLOSED has been fed and the history
\* is CLOSED, OPEN, CLOSED
C2_Witness ==
    /\ Logged("s1")
    /\ fed = <<"CLOSED", "CLOSED", "OPEN", "OPEN", "CLOSED">>
    /\ HistoryStatuses(dets[1]) = <<"CLOSED", "OPEN", "CLOSED">>

\* C3: a classification by a detector whose ROI or reference is unset
\* returns "Not Calibrated", changes no detector and skips log_status; a
\* detector that has never been calibrated has an empty history.
C3_UncalibratedStep ==
    \A t \in Streams :
        (/\ pc[t] = "live_108"
         /\ pc'[t] # "live_108"
         /\ live_detector # None
         /\ ~IsCalibrated(dets[live_detector]))
        => /\ loc'[t].status = "Not Calibrated"
           /\ pc'[t] = "live_120"
           /\ dets' = dets
           /\ live_detector' = live_detector

C3_UncalibratedNoHistory ==
    \A i \in DetIds : ~IsCalibrated(dets[i]) => dets[i].history = << >>

\* C3: every uncalibrated classification is such a step, and uncalibrated
\* detectors always have an empty history.
C3_Uncalibrated == [][C3_UncalibratedStep]_vars /\ []C3_UncalibratedNoHistory

\* C3 witness: a stream has classified a frame with a detector whose ROI is
\* set but whose reference is not, and got "Not Calibrated"
C3_Witness ==
    /\ pc["s1"] = "live_120"
    /\ loc["s1"].status = "Not Calibrated"
    /\ live_detector # None
    /\ dets[live_detector].door_roi # NoRoi
    /\ dets[live_detector].reference_closed = NoImage
    /\ dets[live_detector].history = << >>

\* C4: the threshold of every detector is in [1.0, 15.0]; an 'increase' at
\* 1.0 leaves it at 1.0 and a 'decrease' at 15.0 leaves it at 15.0.
C4_InRange ==
    \A i \in DetIds :
        /\ dets[i].threshold_percentage >= ThresholdMin
        /\ dets[i].threshold_percentage <= ThresholdMax

C4_StaysAtBound ==
    \A t \in Clients :
        (pc[t] = "adjust_298" /\ pc'[t] = "adjust_302" /\ live_detector # None)
        => LET old == dets[live_detector].threshold_percentage
               new == dets'[live_detector].threshold_percentage
           IN  /\ (loc[t].action = "increase" /\ old = ThresholdMin)
                    => new = ThresholdMin
               /\ (loc[t].action = "decrease" /\ old = ThresholdMax)
                    => new = ThresholdMax

\* C4: the threshold is always in range and stays at a bound it is pushed
\* against.
C4_ThresholdClamped == []C4_InRange /\ [][C4_StaysAtBound]_vars

\* C4 witness: 'decrease' has been applied and the threshold is 15.0
C4_Witness ==
    /\ pc["c1"] = "adjust_302"
    /\ loc["c1"].action = "decrease"
    /\ live_detector # None
    /\ dets[live_detector].threshold_percentage = ThresholdMax

\* C5: 'increase' moves the threshold t to max(1.0, t - 0.5), 'decrease' to
\* min(15.0, t + 0.5), any other action leaves it alone, nothing else of the
\* detector changes, and the value returned is the new threshold.
C5_AdjustStep ==
    \A t \in Clients :
        /\ (pc[t] = "adjust_297" /\ pc'[t] # "adjust_297")
           => /\ dets' = dets
              /\ (pc'[t] = "adjust_302") =
                     (loc[t].action \notin {"increase", "decrease"})
        /\ (pc[t] = "adjust_298" /\ pc'[t] = "adjust_302" /\ live_detector # None)
           => LET old == dets[live_detector].threshold_percentage
                  new == dets'[live_detector].threshold_percentage
              IN  /\ loc[t].action = "increase" =>
                        new = (IF old - 1 < 2 THEN 2 ELSE old - 1)
                  /\ loc[t].action = "decrease" =>
                        new = (IF old + 1 > 30 THEN 30 ELSE old + 1)
                  /\ dets' = [dets EXCEPT
                                 ![live_detector].threshold_percentage = new]
        /\ (pc[t] = "adjust_302" /\ pc'[t] = "ret" /\ live_detector # None)
           => /\ loc'[t].kind = "success"
              /\ loc'[t].value = dets[live_detector].threshold_percentage
              /\ loc[t].action \in {"increase", "decrease"}
                    => loc[t].value = dets[live_detector].threshold_percentage
              /\ dets' = dets

\* C5: every step of adjust_sensitivity moves and returns the threshold that
\* way.
C5_AdjustInverse == [][C5_AdjustStep]_vars

\* C5 witness: 'increase' on the initial threshold 5.0 has returned 4.5
C5_Witness ==
    /\ pc["c1"] = "ret"
    /\ loc["c1"].op = "adjust_sensitivity"
    /\ loc["c1"].action = "increase"
    /\ loc["c1"].kind = "success"
    /\ loc["c1"].value = ThresholdInit - ThresholdStep
    /\ dets[live_detector].threshold_percentage = ThresholdInit - ThresholdStep

\* C6: stop_live answers with success and never with an exception; the
\* history it returns is the one of the live detector when it was called (an
\* empty one when there was no detector, as on a second call), and when it
\* has returned the session is inactive, no camera handle is held or open
\* and the detector is gone.
C6_StopStep ==
    \A t \in Clients :
        /\ (pc[t] = "stop_live" /\ pc'[t] = "stop_226")
           => loc'[t].history = << >>
        /\ (pc[t] = "stop_231" /\ pc'[t] = "stop_232")
           => loc'[t].self = live_detector
        /\ (pc[t] = "stop_232" /\ pc'[t] = "ret")
           => /\ loc'[t].kind = "stopped"
              /\ loc'[t].history =
                    (IF live_detector # None
                     THEN dets[live_detector].history ELSE << >>)

C6_Stopped ==
    \A t \in Clients :
        (pc[t] = "ret" /\ loc[t].op = "stop_live")
        => /\ loc[t].kind = "stopped"
           /\ ~live_active
           /\ live_camera = None
           /\ live_detector = None
           /\ live_lock = Unlocked
           /\ \A i \in CamIds : cams[i] # "open"
           /\ \A i \in DetIds : dets[i] = NoDetector

\* C6: every stop_live returns the history that way and leaves the session
\* torn down.
C6_StopSafe == [][C6_StopStep]_vars /\ []C6_Stopped

\* C6 witness: stop_live has returned a history of two entries
C6_Witness ==
    /\ pc["c1"] = "ret"
    /\ loc["c1"].op = "stop_live"
    /\ loc["c1"].kind = "stopped"
    /\ Len(loc["c1"].history) = 2
    /\ live_camera = None

\* C6 witness of the second call: stop_live on an inactive session has
\* returned an empty history
C6_WitnessInactive ==
    /\ pc["c1"] = "ret"
    /\ loc["c1"].op = "stop_live"
    /\ loc["c1"].history = << >>

InStart(t) == pc[t] \in {"start_204", "start_207", "start_214", "start_215"}
InStop(t) == pc[t] \in {"stop_226", "stop_227", "stop_229", "stop_231", "stop_232"}

\* C7: start_live on an active session answers 'Already running' and changes
\* neither the globals nor any camera or detector; the bodies of start_live
\* and stop_live exclude each other, so a start_live that succeeds finds the
\* session still inactive when it activates it (of the requests that passed
\* the test of line 204 for one session only one succeeds), a camera is
\* opened only while none is open, at most one camera is open, and the
\* handle start_live replaces in live_camera is never an open one.
C7_StartStep ==
    /\ \A t \in Clients :
          /\ (pc[t] = "start_204" /\ pc'[t] # "start_204" /\ live_active)
             => /\ pc'[t] = "ret"
                /\ loc'[t].kind = "Already running"
                /\ live_camera' = live_camera
                /\ live_detector' = live_detector
                /\ live_active' = live_active
                /\ cams' = cams
                /\ dets' = dets
          /\ (pc[t] = "start_207" /\ pc'[t] # "start_207")
             => /\ ~live_active
                /\ \A i \in CamIds : cams[i] # "open"
          /\ (pc[t] = "start_215" /\ pc'[t] # "start_215")
             => /\ ~live_active
                /\ live_active'
                /\ loc'[t].kind = "Live detection started"
                /\ cams[live_camera] = "open"
                /\ dets[live_detector] = NewDetector
    /\ (live_camera' # live_camera /\ live_camera # None)
          => cams[live_camera] # "open"
    /\ (live_detector' # live_detector /\ live_detector' # None)
          => live_detector = None

C7_OneStarter ==
    /\ \A t, u \in Clients :
          (t # u /\ (InStart(t) \/ InStop(t))) => ~(InStart(u) \/ InStop(u))
    /\ Cardinality({i \in CamIds : cams[i] = "open"}) <= 1

\* C7: every step of start_live respects the session that exists, and the
\* lock keeps starts and stops apart.
C7_StartExclusive == [][C7_StartStep]_vars /\ []C7_OneStarter

\* C7 witness: two start_live requests have been answered, one with success
\* and the other with 'Already running'
C7_Witness ==
    /\ pc["c1"] = "ret" /\ loc["c1"].op = "start_live"
    /\ pc["c2"] = "ret" /\ loc["c2"].op = "start_live"
    /\ loc["c1"].kind = "Already running"
    /\ loc["c2"].kind = "Live detection started"
    /\ live_active
    /\ cams[live_camera] = "open"

\* C8: a live stream that runs while stop_live runs never uses live_camera
\* or live_detector after stop_live has cleared them (which raises
\* AttributeError on None) and is never left to call read() on a handle that
\* stop_live has released.
C8_StreamSafe ==
    \A t \in Streams :
        /\ ~(pc[t] = "ret" /\ loc[t].kind = "AttributeError")
        /\ ~(pc[t] = "live_94" /\ live_camera # None
               /\ cams[live_camera] = "released")

\* C9: set_roi, calibrate and adjust_sensitivity either act on the detector
\* and camera of the active session or answer with success = false; none
\* uses live_detector or live_camera after stop_live has cleared it (which
\* raises AttributeError on None).
C9_SettingsSafe ==
    \A t \in Clients :
        (pc[t] = "ret" /\ loc[t].op \in SettingOps)
        => loc[t].kind \in {"success", "failure", "Detector not initialized",
                            "Not ready"}

\* C10: after a classification that returns OPEN or CLOSED the door_status
\* of the detector is the status returned.
C10_StoredStatus ==
    \A t \in Streams :
        (Classified(t) /\ loc[t].status \in {"OPEN", "CLOSED"})
        => dets[live_detector].door_status = loc[t].status

\* C12: every sequence of set_roi, calibrate and classifications is total:
\* when the ROI is replaced after calibration by a rectangle of another
\* size, the classification reports a failure instead of raising, the
\* stream that drives it goes on, and the history is unchanged by the frame.
C12_Total ==
    \A t \in Threads : ~(pc[t] = "ret" /\ loc[t].kind = "cv2.error")

\* the status and change percentage detect_door_status returns
Verdict(d, frame) ==
    LET r == detect_door_status(d, frame)
    IN  <<r.status, r.change_percentage>>

\* C13: calibrate_closed with the ROI unset fails and changes nothing; with
\* the ROI set it succeeds and changes only the reference, and afterwards
\* every frame is classified as by a detector that was calibrated with this
\* frame alone, whatever reference the detector had before.
C13_CalibrateStep ==
    \A t \in Clients :
        /\ (pc[t] = "calibrate_267" /\ pc'[t] = "ret" /\ live_detector # None)
           => /\ dets[live_detector].door_roi = NoRoi
              /\ loc'[t].kind = "failure"
              /\ dets' = dets
        /\ (pc[t] = "calibrate_267" /\ pc'[t] = "closed_43")
           => /\ dets[live_detector].door_roi # NoRoi
              /\ loc'[t].self = live_detector
              /\ dets' = dets
        /\ (pc[t] \in {"closed_43", "closed_44", "closed_44_store"}
              /\ pc'[t] # pc[t] /\ loc[t].op = "calibrate")
           => /\ loc[t].self = live_detector
              /\ dets' = [dets EXCEPT ![live_detector].reference_closed =
                             dets'[live_detector].reference_closed]
        /\ (pc[t] = "closed_44_store" /\ pc'[t] = "ret"
              /\ loc[t].op = "calibrate")
           => LET old == dets[live_detector]
                  new == dets'[live_detector]
              IN  /\ loc'[t].kind = "success"
                  /\ \A g \in Frames :
                        Verdict(new, g) =
                            Verdict([set_door_frame(NewDetector, old.door_roi)
                                        EXCEPT !.reference_closed =
                                            GaussianBlur(CvtColorGray(
                                                Crop(loc[t].frame, old.door_roi))),
                                               !.threshold_percentage =
                                            old.threshold_percentage], g)

C13_LastCalibrationWins == [][C13_CalibrateStep]_vars

\* C13 witness: a detector that had classified a frame OPEN against an
\* earlier reference has been calibrated again, with a frame it now
\* classifies CLOSED at 0 percent
C13_Witness ==
    /\ pc["c1"] = "ret"
    /\ loc["c1"].op = "calibrate"
    /\ loc["c1"].kind = "success"
    /\ live_detector # None
    /\ Len(dets[live_detector].history) = 1
    /\ dets[live_detector].history[1].status = "OPEN"
    /\ loc["c1"].frame = FrameOpen
    /\ Verdict(dets[live_detector], FrameOpen) = <<"CLOSED", <<0, 8>> >>

\* C13 witness of the failure: calibrate has failed for want of an ROI
C13_WitnessNoRoi ==
    /\ pc["c1"] = "ret"
    /\ loc["c1"].op = "calibrate"
    /\ loc["c1"].kind = "failure"
    /\ dets[live_detector].door_roi = NoRoi
    /\ dets[live_detector].reference_closed = NoImage

\* the results fed so far are CLOSED ones followed by a single OPEN
ClosedThenOpen ==
    /\ Len(fed) >= 1
    /\ fed[Len(fed)] = "OPEN"
    /\ \A i \in 1..(Len(fed) - 1) : fed[i] = "CLOSED"

\* C14 as stated: after calibration, once the first frame that differs from
\* the reference by more than the threshold has been classified and logged,
\* the history has length 1, whether closed frames were classified before it
\* or not.
C14_HistoryLengthOne ==
    Logged("s1") /\ ClosedThenOpen => Len(dets[1].history) = 1

\* C14 amended: the frame that differs by more than the threshold is
\* classified OPEN, and once it is logged the history holds the single entry
\* OPEN if no frame was classified before it, and the two entries CLOSED,
\* OPEN if closed frames were classified before it.
C14_EndToEnd ==
    /\ Classified("s1") /\ ExceedsThreshold(loc["s1"].pct,
                                            dets[1].threshold_percentage)
           => loc["s1"].status = "OPEN" /\ fed[Len(fed)] = "OPEN"
    /\ Logged("s1") /\ ClosedThenOpen
           => HistoryStatuses(dets[1]) =
                  IF Len(fed) = 1 THEN <<"OPEN">> ELSE <<"CLOSED", "OPEN">>

\* C14 witness: two closed frames and then an open one have been classified
\* and logged, and the history is CLOSED, OPEN
C14_Witness ==
    /\ pc["s1"] = "yield"
    /\ loc["s1"].status = "OPEN"
    /\ fed = <<"CLOSED", "CLOSED", "OPEN">>
    /\ HistoryStatuses(dets[1]) = <<"CLOSED", "OPEN">>

\* C14 witness of the initial case: the first frame classified is an open one
C14_WitnessInitial ==
    /\ pc["s1"] = "yield"
    /\ loc["s1"].status = "OPEN"
    /\ fed = <<"OPEN">>
    /\ HistoryStatuses(dets[1]) = <<"OPEN">>

(***************************************************************************)
(* SpecScore: as SpecClassify, with the stream either not yet opened or    *)
(* about to classify (line 108) a frame it has read, and with two uniform  *)
(* frames among the references and the frames read: a blur leaves a        *)
(* uniform image as it is, so that their difference is the cutoff exactly, *)
(* at every pixel.                                                         *)
(***************************************************************************)
FrameDark ==
    << <<Px(0), Px(0), Px(0), Px(0), Px(0), Px(0), Px(0), Px(0)>> >>
FrameDim ==
    << <<Px(DiffCutoff), Px(DiffCutoff), Px(DiffCutoff), Px(DiffCutoff),
         Px(DiffCutoff), Px(DiffCutoff), Px(DiffCutoff), Px(DiffCutoff)>> >>
ScoreFrames == Frames \cup {FrameDark, FrameDim}

InitScore ==
    /\ live_detector = 1
    /\ live_camera = 1
    /\ live_active = TRUE
    /\ live_lock = Unlocked
    /\ cams = [i \in CamIds |-> IF i = 1 THEN "open" ELSE "free"]
    /\ \E roi \in Rois, f \in ScoreFrames, thr \in ThresholdMin..ThresholdMax :
         dets = [i \in DetIds |->
                    IF i = 1 THEN Calibrated(roi, f, thr) ELSE NoDetector]
    /\ \/ /\ pc = [t \in Threads |-> "idle"]
          /\ loc = [t \in Threads |-> InitLoc]
       \/ /\ pc = [t \in Threads |-> IF t = "s1" THEN "live_108" ELSE "idle"]
          /\ \E f \in ScoreFrames :
               loc = [t \in Threads |->
                         IF t = "s1" THEN [InitLoc EXCEPT !.op = "video_feed",
                                                          !.frame = f]
                         ELSE InitLoc]
    /\ fed = << >>
    /\ VideoNone

NextScore == StreamSteps("s1", FALSE, TRUE)

SpecScore == InitScore /\ [][NextScore]_vars

\* the blurred grey crop detect_door_status compares with the reference
CurrentGray(d, frame) == GaussianBlur(CvtColorGray(Crop(frame, d.door_roi)))

\* the pixels of a difference image that exceed the cutoff, and their count
OverCutoff(diff) ==
    {yx \in (1..Len(diff)) \X (1..Len(diff[1])) :
        diff[yx[1]][yx[2]] > DiffCutoff}

MaskSet(thresh) ==
    {yx \in (1..Len(thresh)) \X (1..Len(thresh[1])) :
        thresh[yx[1]][yx[2]] # 0}

ScoreAgrees(ref, cur, c) ==
    /\ SameShape(ref, cur)
    /\ ~c.error
    /\ MaskSet(c.thresh) = OverCutoff(AbsDiff(ref, cur))
    /\ c.change_percentage[1] = 100 * Cardinality(MaskSet(c.thresh))
    /\ c.change_percentage[2] = Len(cur) * Len(cur[1])
    /\ ref = cur => /\ MaskSet(c.thresh) = {}
                    /\ c.change_percentage[1] = 0

\* C15: the mask detect_door_status computes has a pixel set exactly where
\* the blurred crop differs from the reference by more than the cutoff 30
\* (a difference of 30 leaves it clear), and the change percentage counts
\* these pixels; a frame classified against a reference calibrated from
\* itself has an all-zero mask, 0 percent change and the status CLOSED, for
\* every ROI and every threshold.
C15_ScoreStep ==
    \A t \in Streams :
        /\ (pc[t] = "live_108" /\ pc'[t] = "live_57")
           => /\ loc'[t].gray = CurrentGray(dets[live_detector], loc[t].frame)
              /\ loc'[t].gray =
                     calibrate_closed(dets[live_detector],
                                      loc[t].frame).det.reference_closed
        /\ (pc[t] = "live_57" /\ pc'[t] = "live_63")
           => /\ loc'[t].pct =
                     detect_change(dets[loc[t].self].reference_closed,
                                   loc[t].gray).change_percentage
              /\ ScoreAgrees(dets[loc[t].self].reference_closed, loc[t].gray,
                             detect_change(dets[loc[t].self].reference_closed,
                                           loc[t].gray))
        /\ (pc[t] = "live_63" /\ pc'[t] # "live_63" /\ loc[t].pct[1] = 0)
           => loc'[t].status = "CLOSED"

C15_SelfScoreZero == [][C15_ScoreStep]_vars

\* C15 witness: a frame has been classified against the reference calibrated
\* from itself, at the lowest threshold, as CLOSED with 0 percent change
C15_Witness ==
    /\ Classified("s1")
    /\ dets[1].threshold_percentage = ThresholdMin
    /\ dets[1].door_roi = RoiFull
    /\ loc["s1"].frame = FrameAjar
    /\ dets[1].reference_closed = CurrentGray(dets[1], FrameAjar)
    /\ loc["s1"].pct = <<0, 8>>
    /\ loc["s1"].status = "CLOSED"

\* C15 witness of the cutoff: a frame that differs from the reference by 30
\* exactly at every pixel has been classified with 0 percent change
C15_WitnessCutoff ==
    /\ Classified("s1")
    /\ loc["s1"].frame = FrameDim
    /\ dets[1].reference_closed = CurrentGray(dets[1], FrameDark)
    /\ AbsDiff(dets[1].reference_closed, CurrentGray(dets[1], FrameDim))[1][1]
           = DiffCutoff
    /\ loc["s1"].pct[1] = 0

\* C19: a start_live that fails with 'Camera not available' leaves the
\* session as it was, so that whenever no handler holds the lock an inactive
\* session has neither a camera handle nor a detector, and an active one has
\* both.
C19_FailedStartLeavesNothing ==
    live_lock = Unlocked =>
        IF live_active
        THEN live_camera # None /\ live_detector # None
        ELSE live_camera = None /\ live_detector = None

(***************************************************************************)
(* The steps of the video routes and of a playback stream                  *)
(***************************************************************************)
UploadSteps(t) ==
    \/ upload_name(t)
    \/ upload_path(t)
    \/ upload_save(t)
    \/ upload_detector(t)
    \/ upload_probe(t)
    \/ upload_first_frame(t)

SetVideoRoiSteps(t) == set_video_roi_check(t) \/ set_video_roi_apply(t)

CalibrateVideoSteps(t) ==
    \/ calibrate_video_check(t)
    \/ calibrate_video_read(t)
    \/ calibrate_video_frame(t)
    \/ calibrate_video_apply(t)
    \/ ClosedSteps(t)

PlaySteps(t, serial) ==
    \/ play_open(t, serial)
    \/ play_check(t)
    \/ play_capture(t)
    \/ play_read(t)
    \/ play_draw_roi(t)
    \/ play_unpack_roi(t)
    \/ play_detect(t)
    \/ play_diff(t)
    \/ play_status(t)
    \/ play_yield(t)
    \/ play_resume(t, serial)
    \/ play_end(t)
    \/ Done(t)

VideoOps == {"upload_video", "set_video_roi", "calibrate_video"}

VideoClientSteps(t, serial) ==
    \/ BeginVideo(t, VideoOps, Rois, Files \cup {NoPath}, serial)
    \/ Done(t)
    \/ UploadSteps(t)
    \/ SetVideoRoiSteps(t)
    \/ CalibrateVideoSteps(t)

(***************************************************************************)
(* SpecVideo: one client of the video routes and one consumer of           *)
(* /video_playback_feed, requests served one at a time (the playback is    *)
(* interleaved at its yields).                                             *)
(***************************************************************************)
NextVideo ==
    \/ VideoClientSteps("c1", TRUE)
    \/ PlaySteps("s1", TRUE)

SpecVideo == Init /\ [][NextVideo]_vars

(***************************************************************************)
(* SpecVideoConc: the same client and consumer as threads of the threaded  *)
(* server; every step of a handler can be interleaved with the steps of    *)
(* the generator.                                                          *)
(***************************************************************************)
NextVideoConc ==
    \/ VideoClientSteps("c1", FALSE)
    \/ PlaySteps("s1", FALSE)

SpecVideoConc == Init /\ [][NextVideoConc]_vars

(***************************************************************************)
(* SpecTwoUploads: two clients post /upload_video at once, as threads of   *)
(* the threaded server: each saves its file under the path the global      *)
(* current_video_path names when it reaches line 321.                      *)
(***************************************************************************)
UploadOps == {"upload_video"}

UploadNext(t) ==
    \/ BeginVideo(t, UploadOps, Rois, Files, FALSE)
    \/ Done(t)
    \/ UploadSteps(t)

NextTwoUploads == \E t \in Clients : UploadNext(t)

SpecTwoUploads == Init /\ [][NextTwoUploads]_vars

(***************************************************************************)
(* SpecTwoStreams: two consumers of /video_feed pull frames from the same  *)
(* started and calibrated session, as threads of the threaded server; both *)
(* generators classify with, and log into, the one live detector.          *)
(***************************************************************************)
NextTwoStreams ==
    \/ StreamSteps("s1", FALSE, FALSE)
    \/ StreamSteps("s2", FALSE, FALSE)

SpecTwoStreams == InitRunning /\ [][NextTwoStreams]_vars

(***************************************************************************)
(* SpecTwoStreamsStop: the two consumers of SpecTwoStreams while a client  *)
(* stops and starts the session: a generator that has entered log_status   *)
(* keeps the detector it was called on when stop_live discards it, and the *)
(* other generator can still append to that detector.  The session has    *)
(* been calibrated on the closed door with the whole frame as ROI.         *)
(***************************************************************************)
InitTwoStreamsStop ==
    /\ InitRunning
    /\ dets[1] = Calibrated(RoiFull, FrameClosed, ThresholdInit)

NextTwoStreamsStop ==
    \/ LifecycleNext("c1")
    \/ StreamSteps("s1", FALSE, FALSE)
    \/ StreamSteps("s2", FALSE, FALSE)

SpecTwoStreamsStop == InitTwoStreamsStop /\ [][NextTwoStreamsStop]_vars

\* C18: no history of a detector holds two consecutive entries with the same
\* status, also when two live streams log into the same detector.
C18_NoRepeatedEntry ==
    \A i \in DetIds : \A k \in 1..(Len(dets[i].history) - 1) :
        dets[i].history[k].status # dets[i].history[k + 1].status

\* C17: a live stream does not outlive its session: once a stop_live has
\* completed while the stream was inside the loop body or suspended at its
\* yield, the stream finishes at most the frame it is working on and never
\* passes the loop test of line 90 again, also when start_live is called
\* after the stop.
C17_LoopStep ==
    \A t \in Streams :
        (pc[t] = "live_90" /\ pc'[t] = "live_91") => loc[t].stopped = 0

C17_EndsWithSession == [][C17_LoopStep]_vars

\* C11: the playback stream logs as the live stream does: once it has
\* classified a frame OPEN or CLOSED, the history of the video detector ends
\* with an entry of that status.
C11_PlaybackLogs ==
    \A t \in Streams :
        (/\ pc[t] = "play_180"
         /\ loc[t].status \in {"OPEN", "CLOSED"}
         /\ video_detector # None)
        => /\ Len(dets[video_detector].history) > 0
           /\ dets[video_detector].history[
                  Len(dets[video_detector].history)].status = loc[t].status

\* C20: a playback stream classifies each frame with the detector that was
\* created for the upload of the file it has opened.
C20_PlaybackStep ==
    \A t \in Streams :
        (pc[t] = "play_155" /\ pc'[t] # "play_155" /\ video_detector # None)
        => det_file[video_detector] = loc[t].opened

C20_PlaybackOwnDetector == [][C20_PlaybackStep]_vars

(***************************************************************************)
(* SpecStreams: a live stream on a started and calibrated session and a    *)
(* playback stream on an uploaded video job (calibrated on its first       *)
(* frame when the file can be decoded), each pulled by its consumer until  *)
(* a read fails; the generators are interleaved at their yields.           *)
(***************************************************************************)
InitStreams ==
    /\ live_detector = 1
    /\ live_camera = 1
    /\ live_active = TRUE
    /\ live_lock = Unlocked
    /\ cams = [i \in CamIds |-> IF i = 1 THEN "open" ELSE "free"]
    /\ video_detector = 2
    /\ \E roi \in Rois, f \in Frames, name \in Files :
         /\ dets = [i \in DetIds |->
                       IF i = 1 THEN Calibrated(roi, f, ThresholdInit)
                       ELSE IF i = 2
                       THEN (IF Video(name) = << >> THEN NewDetector
                             ELSE Calibrated(roi, Video(name)[1], ThresholdInit))
                       ELSE NoDetector]
         /\ current_video_path = name
         /\ video_filename = name
         /\ uploads = [p \in Files |-> IF p = name THEN name ELSE NoPath]
         /\ det_file = [i \in DetIds |-> IF i = 2 THEN name ELSE NoPath]
    /\ pc = [t \in Threads |-> "idle"]
    /\ loc = [t \in Threads |-> InitLoc]
    /\ fed = << >>

NextStreams ==
    \/ StreamSteps("s1", FALSE, TRUE)
    \/ PlaySteps("s2", TRUE)

SpecStreams == InitStreams /\ [][NextStreams]_vars

\* C16: a read that returns no frame ends the stream without an error and
\* without a change to any detector: the live generator returns at once, the
\* playback generator leaves its loop and returns; a generator that has
\* returned does nothing more; every frame read is yielded before the next
\* read, and at the end of a playback the frames yielded (frame_count) are
\* the successful reads.
C16_ReadStep ==
    \A t \in Streams :
        /\ (pc[t] = "live_94" /\ pc'[t] \notin {"live_94", "live_101"})
           => /\ pc'[t] = "ret"
              /\ loc'[t].kind = "StopIteration"
              /\ dets' = dets
        /\ (pc[t] # "live_94" /\ pc'[t] = "live_94")
           => pc[t] = "live_91_detector"
        /\ (pc[t] # "live_90" /\ pc'[t] = "live_90") => pc[t] \in {"idle", "yield"}
        /\ (pc[t] = "play_144" /\ pc'[t] \notin {"play_144", "play_151"})
           => /\ pc'[t] = "play_189"
              /\ dets' = dets
              /\ loc[t].frame_count = loc[t].pos
              /\ loc[t].pos = Len(Video(loc[t].opened))
        /\ (pc[t] # "play_144" /\ pc'[t] = "play_144")
           => pc[t] \in {"play_138", "play_yield"}
        /\ (pc[t] = "play_189" /\ pc'[t] # "play_189")
           => /\ pc'[t] = "ret"
              /\ loc'[t].kind = "StopIteration"
              /\ dets' = dets
        /\ (pc[t] = "ret" /\ pc'[t] # "ret")
           => pc'[t] = "idle" /\ dets' = dets

C16_FailedReadEnds == [][C16_ReadStep]_vars

\* C16 witness: the live stream has ended on a failed read of the running
\* session, after it had logged a frame, while the playback is suspended
C16_Witness ==
    /\ pc["s1"] = "ret"
    /\ loc["s1"].op = "video_feed"
    /\ loc["s1"].kind = "StopIteration"
    /\ live_active
    /\ cams[live_camera] = "open"
    /\ Len(dets[live_detector].history) > 0
    /\ pc["s2"] = "play_yield"

\* C16 witness of the playback: it has ended after it yielded the three
\* frames of its file, while the live stream is suspended
C16_WitnessPlayback ==
    /\ pc["s2"] = "ret"
    /\ loc["s2"].kind = "StopIteration"
    /\ loc["s2"].cap = "a.mp4"
    /\ loc["s2"].pos = 3
    /\ loc["s2"].frame_count = 3
    /\ pc["s1"] = "yield"

====
